---------------------------- MODULE Spec2Model ----------------------------
(***************************************************************************)
(* A model of the container lifecycle of darker: the container store       *)
(* (src/storage/containers.rs), the lifecycle state machine                *)
(* (src/runtime/state.rs) and the Container operations run,                *)
(* start_detached, stop and exec (src/runtime/container.rs).               *)
(*                                                                         *)
(* The tool is a single-shot CLI: one invocation is in flight at a time    *)
(* and is followed step by step through its await points (pc).  The        *)
(* payload processes and the wall clock are the environment and move       *)
(* between any two steps.                                                  *)
(*                                                                         *)
(* Strings (ids, names) are sequences of small naturals; Option<T> is a    *)
(* sequence of length at most one (None == << >>, Some(x) == <<x>>).       *)
(***************************************************************************)
EXTENDS Integers, Sequences, FiniteSets, TLC

(***************************************************************************)
(* Bounds of the model.                                                    *)
(***************************************************************************)
\* the wall clock runs over 1..MaxClock
MaxClock == 2
\* the host hands out the pids 1..MaxPid
MaxPid == 2
\* at most MaxHist lifecycle operations are followed per container
MaxHist == 4
\* length of the walks through the transition table
MaxEvents == 3
\* the longest image reference text enumerated, in characters
MaxRefLen == 4
\* the longest manifest list enumerated
MaxManifests == 3
\* the longest field text enumerated for the detached launch, in characters
MaxShLen == 3
\* the number of items of a batch verb
MaxItems == 2
\* the longest env list of a container or of an invocation, in entries
MaxEnv == 2
\* the number of lines a payload writes to one stream
MaxLines == 2
\* the symlinks followed on the way to one path
MaxHops == 3
\* the layers of an image and the volumes of a container
MaxLayers == 3
MaxVolumes == 1
\* the instructions of a Dockerfile after its FROM
MaxSteps == 2

(***************************************************************************)
(* Program constants.                                                      *)
(***************************************************************************)
\* length of a short id (containers.rs:144)
ShortIdLen == 12
\* stop's grace period when no timeout is given (container.rs:181)
DefaultStopTimeout == 10
\* the exit code reported when the child was ended by a signal (spawn.rs:186)
SignalExitCode == 1

None == << >>
Some(x) == <<x>>
IsSome(o) == o /= None
Unwrap(o) == o[1]

Min(a, b) == IF a < b THEN a ELSE b

(***************************************************************************)
(* Container ids: two ids of 13 characters that differ within their first  *)
(* 12 characters; container names, one of which is spelled like the short  *)
(* id of Id1.                                                              *)
(***************************************************************************)
Id1 == <<1, 1, 1, 1, 1, 1, 1, 1, 1, 1, 1, 1, 9>>
Id2 == <<2, 2, 2, 2, 2, 2, 2, 2, 2, 2, 2, 2, 9>>
Ids == {Id1, Id2}
\* the lifecycle specification follows one container
LifecycleIds == {Id1}

ShortId(id) == SubSeq(id, 1, Min(ShortIdLen, Len(id)))

NoName == << >>
NameA == <<7>>
NameB == ShortId(Id1)
Names == {NameA, NameB}

\* exit codes a payload ends with; a child ended by a signal reports 1
ExitCodes == {0, SignalExitCode}
\* the timeouts handed to stop: none, or a number of seconds
Timeouts == {None, Some(3)}

Insert(m, k, v) == [x \in (DOMAIN m) \cup {k} |-> IF x = k THEN v ELSE m[x]]
Delete(m, k) == [x \in (DOMAIN m) \ {k} |-> m[x]]
EmptyMap == [x \in {} |-> None]
Values(m) == {m[x] : x \in DOMAIN m}


(***************************************************************************)
(* runtime/state.rs: the lifecycle state machine.                          *)
(***************************************************************************)
Statuses == {"created", "running", "paused", "stopped", "dead"}

\* ContainerEvent; Die carries the payload's exit code
Events == {[kind |-> k] : k \in {"create", "start", "pause", "unpause", "stop", "kill", "remove"}}
            \cup {[kind |-> "die", exit_code |-> c] : c \in ExitCodes}

\* ContainerStatus::from_state
from_state(state) ==
    IF state.running
    THEN IF state.paused THEN "paused" ELSE "running"
    ELSE IF IsSome(state.exit_code) THEN "stopped" ELSE "created"

is_valid_transition_no_die(from, event) ==
    \/ from = "created" /\ event.kind = "start"
    \/ from = "created" /\ event.kind = "remove"
    \/ from = "running" /\ event.kind = "pause"
    \/ from = "running" /\ event.kind = "stop"
    \/ from = "running" /\ event.kind = "kill"
    \/ from = "paused" /\ event.kind = "unpause"
    \/ from = "paused" /\ event.kind = "stop"
    \/ from = "paused" /\ event.kind = "kill"
    \/ from = "stopped" /\ event.kind = "start"
    \/ from = "stopped" /\ event.kind = "remove"

\* ContainerEvent::is_valid_transition
is_valid_transition(from, event) ==
    \/ from = "created" /\ event.kind = "start"
    \/ from = "created" /\ event.kind = "remove"
    \/ from = "running" /\ event.kind = "pause"
    \/ from = "running" /\ event.kind = "stop"
    \/ from = "running" /\ event.kind = "kill"
    \/ from = "running" /\ event.kind = "die"
    \/ from = "paused" /\ event.kind = "unpause"
    \/ from = "paused" /\ event.kind = "stop"
    \/ from = "paused" /\ event.kind = "kill"
    \/ from = "stopped" /\ event.kind = "start"
    \/ from = "stopped" /\ event.kind = "remove"

\* ContainerEvent::apply, an Option<ContainerStatus>
apply(from, event) ==
    IF ~is_valid_transition(from, event)
    THEN None
    ELSE CASE event.kind = "create" -> Some("created")
           [] event.kind = "start" -> Some("running")
           [] event.kind = "pause" -> Some("paused")
           [] event.kind = "unpause" -> Some("running")
           [] event.kind \in {"stop", "kill", "die"} -> Some("stopped")
           [] event.kind = "remove" -> Some("dead")

(***************************************************************************)
(* storage/containers.rs: the records kept on disk.                        *)
(***************************************************************************)
\* the wall clock's value before any tick: DateTime::default()
Epoch == 0

\* ContainerState::default(), what load_state returns when state.json is absent
DefaultState ==
    [running |-> FALSE, paused |-> FALSE, pid |-> None, exit_code |-> None,
     started_at |-> Epoch, finished_at |-> None]

\* the state ContainerStore::create writes
InitialState(t) ==
    [running |-> FALSE, paused |-> FALSE, pid |-> None, exit_code |-> None,
     started_at |-> t, finished_at |-> None]

(***************************************************************************)
(* Text.  A string is a sequence of characters; a character is written as  *)
(* a string, and a run of letters that has no special character in it may  *)
(* be written as one character ("alpine").                                 *)
(***************************************************************************)
\* all strings over the alphabet of at most n characters
RECURSIVE StringsUpTo(_, _)
StringsUpTo(alphabet, n) ==
    IF n = 0 THEN {<< >>}
    ELSE LET shorter == StringsUpTo(alphabet, n - 1)
         IN shorter \cup {Append(t, c) : t \in shorter, c \in alphabet}

\* str::contains(char)
Contains(str, c) == \E i \in 1..Len(str) : str[i] = c
\* the position of the first and of the last c in str, 0 if there is none
FirstIndex(str, c) ==
    IF Contains(str, c)
    THEN CHOOSE i \in 1..Len(str) : str[i] = c /\ \A j \in 1..(i - 1) : str[j] /= c
    ELSE 0
LastIndex(str, c) ==
    IF Contains(str, c)
    THEN CHOOSE i \in 1..Len(str) : str[i] = c /\ \A j \in (i + 1)..Len(str) : str[j] /= c
    ELSE 0
Before(str, i) == SubSeq(str, 1, i - 1)
After(str, i) == SubSeq(str, i + 1, Len(str))
\* str::splitn(2, c), collected
splitn2(str, c) ==
    IF Contains(str, c)
    THEN <<Before(str, FirstIndex(str, c)), After(str, FirstIndex(str, c))>>
    ELSE <<str>>
\* str::rsplitn(2, c), collected: the part after the last c comes first
rsplitn2(str, c) ==
    IF Contains(str, c)
    THEN <<After(str, LastIndex(str, c)), Before(str, LastIndex(str, c))>>
    ELSE <<str>>
\* str::split_once(c) and str::rsplit_once(c), Options of a pair
split_once(str, c) ==
    IF Contains(str, c)
    THEN Some(<<Before(str, FirstIndex(str, c)), After(str, FirstIndex(str, c))>>)
    ELSE None
rsplit_once(str, c) ==
    IF Contains(str, c)
    THEN Some(<<Before(str, LastIndex(str, c)), After(str, LastIndex(str, c))>>)
    ELSE None
\* str::split(c).next()
split_first(str, c) == IF Contains(str, c) THEN Before(str, FirstIndex(str, c)) ELSE str
\* str::trim()
RECURSIVE trim_start(_)
trim_start(str) ==
    IF str /= << >> /\ Head(str) = " " THEN trim_start(Tail(str)) ELSE str
RECURSIVE trim_end(_)
trim_end(str) ==
    IF str /= << >> /\ str[Len(str)] = " " THEN trim_end(SubSeq(str, 1, Len(str) - 1)) ELSE str
trim(str) == trim_end(trim_start(str))

(***************************************************************************)
(* image/oci.rs: ImageReference.                                           *)
(***************************************************************************)
DockerIo == <<"docker", ".", "io">>
Latest == <<"latest">>
Localhost == <<"localhost">>
Library == <<"library", "/">>

\* ImageReference::parse with the tag split off at the last ':' whatever
\* follows it
parse_split_at_last_colon(reference) ==
    LET text == trim(reference)
        ref_without_digest == IF Contains(text, "@") THEN splitn2(text, "@")[1] ELSE text
        digest == IF Contains(text, "@") THEN Some(splitn2(text, "@")[2]) ELSE None
        has_tag == Contains(ref_without_digest, ":")
        ref_without_tag == IF has_tag THEN rsplitn2(ref_without_digest, ":")[2]
                           ELSE ref_without_digest
        tag == IF has_tag THEN rsplitn2(ref_without_digest, ":")[1] ELSE Latest
        first_part == split_first(ref_without_tag, "/")
        is_registry == \/ Contains(first_part, ".")
                       \/ Contains(first_part, ":")
                       \/ first_part = Localhost
    IN IF text = << >>
       THEN [ok |-> FALSE, error |-> "InvalidImageRef"]
       ELSE [ok |-> TRUE,
             registry |-> IF Contains(ref_without_tag, "/") /\ is_registry
                          THEN splitn2(ref_without_tag, "/")[1]
                          ELSE DockerIo,
             repository |-> IF Contains(ref_without_tag, "/")
                            THEN IF is_registry THEN splitn2(ref_without_tag, "/")[2]
                                 ELSE ref_without_tag
                            ELSE Library \o ref_without_tag,
             tag |-> tag,
             digest |-> digest]

\* ImageReference::parse, a Result<ImageReference>
parse(reference) ==
    LET text == trim(reference)
        ref_without_digest == IF Contains(text, "@") THEN splitn2(text, "@")[1] ELSE text
        digest == IF Contains(text, "@") THEN Some(splitn2(text, "@")[2]) ELSE None
        has_tag == /\ Contains(ref_without_digest, ":")
                   /\ ~(IF IsSome(rsplit_once(ref_without_digest, ":"))
                        THEN Contains(Unwrap(rsplit_once(ref_without_digest, ":"))[2], "/")
                        ELSE FALSE)
        ref_without_tag == IF has_tag THEN rsplitn2(ref_without_digest, ":")[2]
                           ELSE ref_without_digest
        tag == IF has_tag THEN rsplitn2(ref_without_digest, ":")[1] ELSE Latest
        first_part == split_first(ref_without_tag, "/")
        is_registry == \/ Contains(first_part, ".")
                       \/ Contains(first_part, ":")
                       \/ first_part = Localhost
    IN IF text = << >>
       THEN [ok |-> FALSE, error |-> "InvalidImageRef"]
       ELSE [ok |-> TRUE,
             registry |-> IF Contains(ref_without_tag, "/") /\ is_registry
                          THEN splitn2(ref_without_tag, "/")[1]
                          ELSE DockerIo,
             repository |-> IF Contains(ref_without_tag, "/")
                            THEN IF is_registry THEN splitn2(ref_without_tag, "/")[2]
                                 ELSE ref_without_tag
                            ELSE Library \o ref_without_tag,
             tag |-> tag,
             digest |-> digest]

\* ImageReference::repository_with_registry
repository_with_registry(r) ==
    IF r.registry = DockerIo THEN r.repository ELSE r.registry \o <<"/">> \o r.repository

\* ImageReference::full_name
full_name(r) == repository_with_registry(r) \o <<":">> \o r.tag

\* the reference texts of the tests and of the documentation
Alpine == <<"alpine">>
AlpineTagged == <<"alpine", ":", "3", ".", "18">>
UserApp == <<"myuser", "/", "myapp", ":", "v1", ".", "0">>
GhcrRepo == <<"ghcr", ".", "io", "/", "owner", "/", "repo", ":", "tag">>
LocalRegistry == <<"localhost", ":", "5000", "/", "x">>
AlpineDigest == <<"alpine", "@", "sha256", ":", "abc">>
DockerIoAlpine == <<"docker", ".", "io", "/", "alpine">>
PaddedAlpine == <<" ", "alpine", ":", "3", " ">>
ExampleRefs ==
    {Alpine, AlpineTagged, UserApp, GhcrRepo, LocalRegistry, AlpineDigest, DockerIoAlpine,
     PaddedAlpine}
\* the characters reference texts are enumerated over
RefAlphabet == {"a", "docker", "io", "localhost", ".", ":", "/", "@"}
RefTexts == StringsUpTo(RefAlphabet, MaxRefLen) \cup ExampleRefs

(***************************************************************************)
(* image/registry.rs: the platform manifest chosen from a manifest list.   *)
(***************************************************************************)
\* std::env::consts::ARCH of the hosts darker is built for
HostArchs == {"x86_64", "aarch64"}

\* get_host_arch
get_host_arch(ARCH) ==
    CASE ARCH = "x86_64" -> "amd64"
      [] ARCH = "aarch64" -> "arm64"
      [] ARCH = "arm" -> "arm"
      [] ARCH = "x86" -> "386"
      [] OTHER -> ARCH

\* the platform field of a manifest list entry, an Option<Platform>
Platforms ==
    {None} \cup {Some([os |-> o, architecture |-> a]) :
                    o \in {"linux", "darwin", "windows"}, a \in {"amd64", "arm64"}}
\* manifest lists: the digest of an entry is told by its place in the list
ManifestLists ==
    {[i \in 1..Len(ps) |-> [digest |-> i, platform |-> ps[i]]] :
        ps \in StringsUpTo(Platforms, MaxManifests)}

\* Iterator::find: the first element of seq among those matching, an Option
find_first(seq, matching) ==
    IF \E i \in 1..Len(seq) : seq[i] \in matching
    THEN Some(seq[CHOOSE i \in 1..Len(seq) :
                    seq[i] \in matching /\ \A j \in 1..(i - 1) : seq[j] \notin matching])
    ELSE None
\* slice::first
first(seq) == IF seq = << >> THEN None ELSE Some(seq[1])
\* Option::or_else
or_else(a, b) == IF IsSome(a) THEN a ELSE b

\* fetch_manifest's choice without the final fallback to the first entry
platform_manifest_no_first(manifests, arch) ==
    LET os_and_arch(m) == /\ IsSome(m.platform)
                          /\ Unwrap(m.platform).os \in {"linux", "darwin"}
                          /\ Unwrap(m.platform).architecture = arch
        arch_only(m) == IF IsSome(m.platform)
                        THEN Unwrap(m.platform).architecture = arch
                        ELSE FALSE
        chosen == or_else(find_first(manifests, {x \in Values(manifests) : os_and_arch(x)}),
                          find_first(manifests, {x \in Values(manifests) : arch_only(x)}))
    IN IF IsSome(chosen)
       THEN [ok |-> TRUE, manifest |-> Unwrap(chosen)]
       ELSE [ok |-> FALSE, error |-> "Registry"]

\* fetch_manifest lines 186-215: the entry of the list whose manifest is fetched
platform_manifest(manifests, arch) ==
    LET os_and_arch(m) == /\ IsSome(m.platform)
                          /\ Unwrap(m.platform).os \in {"linux", "darwin"}
                          /\ Unwrap(m.platform).architecture = arch
        arch_only(m) == IF IsSome(m.platform)
                        THEN Unwrap(m.platform).architecture = arch
                        ELSE FALSE
        chosen == or_else(or_else(find_first(manifests, {x \in Values(manifests) : os_and_arch(x)}),
                                  find_first(manifests, {x \in Values(manifests) : arch_only(x)})),
                          first(manifests))
    IN IF IsSome(chosen)
       THEN [ok |-> TRUE, manifest |-> Unwrap(chosen)]
       ELSE [ok |-> FALSE, error |-> "Registry"]

(***************************************************************************)
(* darwin/spawn.rs: the sh -c text of a detached launch.                   *)
(***************************************************************************)
\* str::replace(from, to) for a character from and a string to
RECURSIVE replace(_, _, _)
replace(str, from, to) ==
    IF str = << >> THEN << >>
    ELSE (IF Head(str) = from THEN to ELSE <<Head(str)>>) \o replace(Tail(str), from, to)

\* shell_escape that only wraps the string in single quotes
shell_escape_wrap_only(str) ==
    IF str = << >> THEN <<"'", "'">> ELSE <<"'">> \o str \o <<"'">>

\* shell_escape
shell_escape(str) ==
    IF str = << >>
    THEN <<"'", "'">>
    ELSE <<"'">> \o replace(str, "'", <<"'", "\\", "'", "'">>) \o <<"'">>

\* Vec<String>::join(sep)
RECURSIVE join(_, _)
join(strs, sep) ==
    IF strs = << >> THEN << >>
    ELSE IF Len(strs) = 1 THEN strs[1]
    ELSE strs[1] \o sep \o join(Tail(strs), sep)

\* lines 247-256: the export statements of the env entries that have a '='
RECURSIVE env_exports(_)
env_exports(env) ==
    IF env = << >> THEN << >>
    ELSE LET kv == split_once(Head(env), "=")
         IN (IF IsSome(kv)
             THEN << <<"export", " ">> \o shell_escape(Unwrap(kv)[1]) \o <<"=">>
                        \o shell_escape(Unwrap(kv)[2]) >>
             ELSE << >>) \o env_exports(Tail(env))

\* lines 238-273: the text handed to /bin/sh -c
\* "cd {} && {}{} {} >> {} 2>&1 & echo $!"
detached_command(f) ==
    LET escaped_cmd == shell_escape(f.actual_cmd)
        escaped_args == [i \in 1..Len(f.args) |-> shell_escape(f.args[i])]
        escaped_workdir == shell_escape(f.work_dir)
        escaped_logpath == shell_escape(f.log_path)
        env_str == IF env_exports(f.env) = << >> THEN << >>
                   ELSE join(env_exports(f.env), <<" ", "&&", " ">>) \o <<" ", "&&", " ">>
    IN <<"cd", " ">> \o escaped_workdir \o <<" ", "&&", " ">> \o env_str \o escaped_cmd
         \o <<" ">> \o join(escaped_args, <<" ">>) \o <<" ", ">>", " ">> \o escaped_logpath
         \o <<" ", "2>&1", " ", "&", " ", "echo", " ", "$!">>

\* the characters field texts are enumerated over
ShAlphabet == {"a", "'", "$", ";", "&", " ", "\\", "="}
\* a second text beside the enumerated one
ShOthers == {<< >>, <<"'">>, <<"a", " ", "'", ";">>}
\* the fields of a detached launch: work_dir, env, actual_cmd, command[1..], log_path
ShFields ==
    {[work_dir |-> x, env |-> <<x \o <<"=">> \o y, x>>, actual_cmd |-> x,
      args |-> <<y, x>>, log_path |-> y] :
        x \in StringsUpTo(ShAlphabet, MaxShLen), y \in ShOthers}
    \cup
    {[work_dir |-> y, env |-> <<x>>, actual_cmd |-> y, args |-> << >>, log_path |-> x] :
        x \in StringsUpTo(ShAlphabet, MaxShLen), y \in ShOthers}

\* How /bin/sh reads a command text into words and operators: inside single
\* quotes every character is literal; outside, a backslash makes the next
\* character literal, blanks end a word, and ; & && >> 2>&1 $ $! are syntax.
ShSyntax == {";", "&", "&&", ">>", "2>&1", "$", "$!"}
Word(value) == [word |-> value]
Syntax(c) == [syntax |-> c]
\* the words read so far, the word in progress included
flushed(st) == IF st.started THEN Append(st.out, Word(st.cur)) ELSE st.out
\* the reader's state after one more character c
sh_step(st, c) ==
       CASE st.quoted /\ c = "'" -> [st EXCEPT !.quoted = FALSE]
         [] st.quoted /\ c /= "'" -> [st EXCEPT !.cur = Append(@, c)]
         [] ~st.quoted /\ st.escaped ->
              [st EXCEPT !.escaped = FALSE, !.cur = Append(@, c), !.started = TRUE]
         [] ~st.quoted /\ ~st.escaped /\ c = "'" -> [st EXCEPT !.quoted = TRUE, !.started = TRUE]
         [] ~st.quoted /\ ~st.escaped /\ c = "\\" -> [st EXCEPT !.escaped = TRUE]
         [] ~st.quoted /\ ~st.escaped /\ c = " " ->
              [st EXCEPT !.cur = << >>, !.started = FALSE, !.out = flushed(st)]
         [] ~st.quoted /\ ~st.escaped /\ c \in ShSyntax ->
              [st EXCEPT !.cur = << >>, !.started = FALSE, !.out = Append(flushed(st), Syntax(c))]
         [] OTHER -> [st EXCEPT !.cur = Append(@, c), !.started = TRUE]
\* the reader in state st reads text from its i-th character on; the state is
\* looked at in every step, so that it is computed character by character
RECURSIVE sh_read(_, _, _)
sh_read(text, i, st) ==
    IF i <= Len(text) /\ st.quoted \in BOOLEAN
    THEN sh_read(text, i + 1, sh_step(st, text[i]))
    ELSE st
\* the words and the syntax the shell has read at the end of text
sh_words(text) ==
    LET st == sh_read(text, 1, [quoted |-> FALSE, escaped |-> FALSE, cur |-> << >>,
                                started |-> FALSE, out |-> << >>])
    IN IF st.quoted THEN Append(st.out, Syntax("unterminated quote"))
       ELSE IF st.escaped THEN Append(st.out, Word(Append(st.cur, "\\")))
       ELSE IF st.started THEN Append(st.out, Word(st.cur))
       ELSE st.out

\* no CLI verb has launched anything
NoVerb ==
    [kind |-> "none", pending |-> FALSE, detach |-> FALSE, rm |-> FALSE,
     auto_remove |-> FALSE, name |-> NoName]

\* no batch verb is in flight
NoBatch ==
    [args |-> [verb |-> "none", force |-> FALSE, attach |-> FALSE, no_prune |-> FALSE],
     items |-> << >>, idx |-> 1, log |-> << >>, ended |-> "ok"]

\* no call was made by another process
NoPeer == [op |-> "none", id |-> << >>, was_running |-> FALSE, result |-> "Ok"]

VARIABLES
    now,        \* chrono::Utc::now()
    alive,      \* the pids of the payload processes that are alive
    next_pid,   \* the pid the host gives to the next process spawned
    dirs,       \* the ids c for which containers/<c>/ exists
    config,     \* id -> the content of containers/<id>/config.json, where it exists
    cstate,     \* id -> the content of containers/<id>/state.json, where it exists
    aux_files,  \* id -> the other files of containers/<id>/ (sandbox.sb, container.pid, container.log, rootfs)
    pid_file,   \* id -> the content of containers/<id>/container.pid, where it exists
    names,      \* containers.json: ContainerIndex.names
    short_ids,  \* containers.json: ContainerIndex.short_ids
    pc,         \* the position of the invocation in flight, "idle" between invocations
    op,         \* the operation of the latest invocation
    cid,        \* the container id the latest invocation works on
    arg_name,   \* the name handed to the latest create
    arg_timeout,\* the timeout handed to the latest stop
    lstate,     \* the operation's local variable `state`
    entry,      \* the content of state.json when the latest invocation began (None if absent)
    child,      \* the pid of the foreground child the invocation waits for
    trace,      \* the signals, sleeps and probes the latest stop has issued
    result,     \* the Result of the latest invocation: "pending", "Ok" or the error
    retcode,    \* the exit code a successful run or exec returned
    hist,       \* id -> the lifecycle operations that returned Ok since the container's creation,
                \* while they alternate start and stop
    fsm_from,   \* the status the walk's latest step was taken from
    fsm_status, \* the status a walk through the transition table has reached
    fsm_event,  \* the event of the walk's latest step
    fsm_valid,  \* what is_valid_transition said of it
    fsm_applied,\* what apply said of it
    fsm_steps,  \* the number of steps of the walk
    verb,       \* the CLI verb (run, start) that launched the latest foreground or detached start
    ref_text,   \* the reference text handed to ImageReference::parse
    ref_parsed, \* what parse returned for it, None before the call
    ref_reparsed, \* what parse returned for the full_name of a reference parsed Ok
    host,       \* std::env::consts::ARCH
    index_manifests, \* the entries of the manifest list the registry returned
    selected,   \* fetch_manifest's choice among them, None before the choice
    sh_fields,  \* the fields spawn_detached interpolates into the sh -c text
    sh_text,    \* the sh -c text spawn_detached built of them, None before it did
    images,     \* image id -> the content of images/<id>/metadata.json, where images/<id>/ exists
    image_index,\* images.json: ImageIndex.tags and ImageIndex.short_ids
    layer_dirs, \* layer digest -> the files of layers/<digest>/, where it exists
    image_call, \* the latest call of the image store or of pull, and its Result
    pull,       \* the position of the pull in flight
    stored,     \* image id -> the reference of its latest store, while that tag is not
                \* rebound and the image is not removed
    peer,  \* the latest call that another process made while this invocation waits for its child
    batch,  \* the batch verb in flight: its arguments, its items, the index of the item at hand, the outcome of each item dealt with, and how it ended
    launch,  \* the latest launch of a payload: its path (run, exec, start_detached), the tool's own environment, the container's env, the env of the invocation, and the environment the payload starts with
    tee,  \* a foreground launch with piped output: whether a log path was given, the lines the payload has written to each stream, the lines still in each pipe, the lines printed by the tool, the log file, and where the payload and the verb stand
    disk,  \* the files of the host and of the root filesystem: a node for each path, and whether the tool may write to the host's system directories
    setup,  \* the latest RootFs::setup: the layers of its image, from the bottom, its volume specs, and its result
    build  \* the build in flight: its instructions, the index of the next one, the layers inherited from FROM, the layer list and the command so far, its tag, and how it ended

store_vars == <<dirs, config, cstate, aux_files, pid_file, names, short_ids>>
env_vars == <<now, alive, next_pid>>
call_vars == <<pc, op, cid, arg_name, arg_timeout, lstate, entry, child, trace, result, retcode>>
fsm_vars == <<fsm_from, fsm_status, fsm_event, fsm_valid, fsm_applied, fsm_steps>>
\* the container runtime and its store
runtime_vars == <<store_vars, env_vars, call_vars, hist, verb>>
\* the subsystems beside the container runtime
ref_vars == <<ref_text, ref_parsed, ref_reparsed>>
manifest_vars == <<host, index_manifests, selected>>
shell_vars == <<sh_fields, sh_text>>
image_vars == <<images, image_index, layer_dirs, image_call, pull, stored>>
peer_vars == <<peer>>
batch_vars == <<batch>>
launch_vars == <<launch>>
tee_vars == <<tee>>
rootfs_vars == <<disk, setup>>
build_vars == <<build>>
\* the subsystems of the earlier sections
first_side_vars == <<fsm_vars, ref_vars, manifest_vars, shell_vars, image_vars>>
more_vars == <<peer_vars, batch_vars, launch_vars, tee_vars, rootfs_vars, build_vars>>
rest_peer_vars == <<batch_vars, launch_vars, tee_vars, rootfs_vars, build_vars>>
beside_peer_vars == <<first_side_vars, rest_peer_vars>>
rest_batch_vars == <<peer_vars, launch_vars, tee_vars, rootfs_vars, build_vars>>
beside_batch_vars == <<first_side_vars, rest_batch_vars>>
rest_launch_vars == <<peer_vars, batch_vars, tee_vars, rootfs_vars, build_vars>>
beside_launch_vars == <<first_side_vars, rest_launch_vars>>
rest_tee_vars == <<peer_vars, batch_vars, launch_vars, rootfs_vars, build_vars>>
beside_tee_vars == <<first_side_vars, rest_tee_vars>>
rest_rootfs_vars == <<peer_vars, batch_vars, launch_vars, tee_vars, build_vars>>
beside_rootfs_vars == <<first_side_vars, rest_rootfs_vars>>
rest_build_vars == <<peer_vars, batch_vars, launch_vars, tee_vars, rootfs_vars>>
beside_build_vars == <<first_side_vars, rest_build_vars>>
side_vars == <<first_side_vars, more_vars>>
\* everything but the image store, the layer store and pull
other_than_images == <<runtime_vars, fsm_vars, ref_vars, manifest_vars, shell_vars, more_vars>>
vars == <<runtime_vars, side_vars>>


(***************************************************************************)
(* ContainerStore (storage/containers.rs).                                 *)
(***************************************************************************)
\* ContainerStore::load_state
load_state(id) == IF id \in DOMAIN cstate THEN cstate[id] ELSE DefaultState

\* ContainerStore::save_state: state.json of an existing container directory rewritten
save_state(id, state) == Insert(cstate, id, state)

\* ContainerStore::find, an Option<String>
find(name_or_id) ==
    IF name_or_id \in DOMAIN names THEN Some(names[name_or_id])
    ELSE IF name_or_id \in DOMAIN short_ids THEN Some(short_ids[name_or_id])
    ELSE IF name_or_id \in Values(short_ids) THEN Some(name_or_id)
    ELSE IF name_or_id \in DOMAIN config THEN Some(name_or_id)
    ELSE None

\* ContainerStore::exists
exists(name) == IsSome(find(name))

\* what state.json of a container holds, None when there is no such file
Persisted(id) == IF id \in DOMAIN cstate THEN Some(cstate[id]) ELSE None

\* the effect of ContainerStore::create on the store
CreateEffect(id, name, auto_remove) ==
    /\ dirs' = dirs \cup {id}
    /\ config' = Insert(config, id, [name |-> name, auto_remove |-> auto_remove])
    /\ cstate' = save_state(id, InitialState(now))
    /\ names' = Insert(names, name, id)
    /\ short_ids' = Insert(short_ids, ShortId(id), id)
    /\ hist' = Insert(hist, id, << >>)

\* a call returns: nothing is in flight any more
Return(r, code) ==
    /\ pc' = "idle"
    /\ result' = r
    /\ retcode' = code
    /\ child' = None
    /\ lstate' = DefaultState

\* a new invocation begins
Begin(o, id, name, timeout, label) ==
    /\ pc = "idle"
    /\ ~verb.pending
    /\ verb' = NoVerb
    /\ pc' = label
    /\ op' = o
    /\ cid' = id
    /\ arg_name' = name
    /\ arg_timeout' = timeout
    /\ entry' = Persisted(id)
    /\ lstate' = DefaultState
    /\ child' = None
    /\ trace' = << >>
    /\ result' = "pending"
    /\ retcode' = None

\* ContainerStore::create(config)
StoreCreate(id, name, auto_remove) ==
    /\ pc = "idle"
    /\ ~verb.pending
    /\ verb' = NoVerb
    /\ op' = "create"
    /\ cid' = id
    /\ arg_name' = name
    /\ arg_timeout' = None
    /\ entry' = Persisted(id)
    /\ trace' = << >>
    /\ CreateEffect(id, name, auto_remove)
    /\ aux_files' = IF id \in dirs THEN aux_files ELSE Insert(aux_files, id, {})
    /\ Return("Ok", None)
    /\ UNCHANGED <<pid_file, env_vars, side_vars>>

\* the effect of ContainerStore::remove on the store of a container whose
\* config loads: the directory and both index entries go
RemoveEffect(id) ==
    /\ dirs' = dirs \ {id}
    /\ config' = Delete(config, id)
    /\ cstate' = Delete(cstate, id)
    /\ aux_files' = Delete(aux_files, id)
    /\ pid_file' = Delete(pid_file, id)
    /\ names' = Delete(names, config[id].name)
    /\ short_ids' = Delete(short_ids, ShortId(id))
    /\ hist' = Delete(hist, id)

\* ContainerStore::remove(container_id)
StoreRemove(id) ==
    /\ pc = "idle"
    /\ ~verb.pending
    /\ verb' = NoVerb
    /\ op' = "remove"
    /\ cid' = id
    /\ arg_name' = NoName
    /\ arg_timeout' = None
    /\ entry' = Persisted(id)
    /\ trace' = << >>
    /\ IF id \notin DOMAIN config
       THEN /\ Return("ContainerNotFound", None)
            /\ UNCHANGED <<store_vars, hist>>
       ELSE /\ RemoveEffect(id)
            /\ Return("Ok", None)
    /\ UNCHANGED <<env_vars, side_vars>>


(***************************************************************************)
(* The host's processes.                                                   *)
(***************************************************************************)
\* libc::kill(pid, 0) == 0
kill_probe(pid) == pid \in alive

\* SandboxProfile::write_profile: containers/<id>/sandbox.sb written
write_profile(id) == [aux_files EXCEPT ![id] = @ \cup {"sandbox.sb"}]

\* the operations that start a container, and the one that stops it
StartOps == {"run", "start_detached"}
Deviated == <<"other">>

\* h extended by o, as long as the result alternates start and stop and is no
\* longer than MaxHist; Deviated from then on
Track(h, o) ==
    IF /\ h /= Deviated
       /\ Len(h) < MaxHist
       /\ (Len(h) % 2 = 0) = (o \in StartOps)
    THEN Append(h, o)
    ELSE Deviated

\* a lifecycle operation on the container returned Ok
Record(id, o) == hist' = [hist EXCEPT ![id] = Track(@, o)]

\* Container::from_config on a config loaded from the store
Loadable(id) == id \in DOMAIN config

(***************************************************************************)
(* Container::run (runtime/container.rs).                                  *)
(***************************************************************************)
CallRun(id) ==
    /\ Loadable(id)
    /\ Begin("run", id, NoName, None, "run_begin")
    /\ UNCHANGED <<store_vars, env_vars, hist, side_vars>>

\* lines 48-51: the running state is persisted
RunBegin ==
    /\ pc = "run_begin"
    /\ LET state == [load_state(cid) EXCEPT !.running = TRUE, !.started_at = now]
       IN /\ lstate' = state
          /\ cstate' = save_state(cid, state)
    /\ pc' = "run_spawn"
    /\ UNCHANGED <<dirs, config, aux_files, pid_file, names, short_ids, env_vars,
                   op, cid, arg_name, arg_timeout, entry, child, trace, result, retcode,
                   hist, verb, side_vars>>

\* lines 84-100: the sandbox profile is written and the payload spawned in the foreground
RunSpawn ==
    /\ pc = "run_spawn"
    /\ aux_files' = write_profile(cid)
    /\ \/ /\ next_pid <= MaxPid
          /\ child' = Some(next_pid)
          /\ alive' = alive \cup {next_pid}
          /\ next_pid' = next_pid + 1
          /\ pc' = "run_wait"
          /\ UNCHANGED <<result, retcode, lstate>>
       \/ /\ Return("Spawn", None)
          /\ UNCHANGED <<alive, next_pid>>
    /\ UNCHANGED <<dirs, config, cstate, pid_file, names, short_ids, now,
                   op, cid, arg_name, arg_timeout, entry, trace, hist, verb, side_vars>>

\* RunFinish without the assignment of finished_at
RunFinish_NoFinishedAt(exit_code) ==
    /\ pc = "run_wait"
    /\ alive' = alive \ {Unwrap(child)}
    /\ LET state == [lstate EXCEPT !.running = FALSE,
                                   !.exit_code = Some(exit_code),
                                   !.pid = None]
       IN cstate' = save_state(cid, state)
    /\ Record(cid, "run")
    /\ Return("Ok", Some(exit_code))
    /\ UNCHANGED <<dirs, config, aux_files, pid_file, names, short_ids, now, next_pid,
                   op, cid, arg_name, arg_timeout, entry, trace, verb, side_vars>>

\* lines 100-109: the payload has exited with exit_code; the final state is persisted
RunFinish(exit_code) ==
    /\ pc = "run_wait"
    /\ alive' = alive \ {Unwrap(child)}
    /\ LET state == [lstate EXCEPT !.running = FALSE,
                                   !.exit_code = Some(exit_code),
                                   !.finished_at = Some(now),
                                   !.pid = None]
       IN cstate' = save_state(cid, state)
    /\ Record(cid, "run")
    /\ Return("Ok", Some(exit_code))
    /\ UNCHANGED <<dirs, config, aux_files, pid_file, names, short_ids, now, next_pid,
                   op, cid, arg_name, arg_timeout, entry, trace, verb, side_vars>>

(***************************************************************************)
(* Container::start_detached.                                              *)
(***************************************************************************)
CallStartDetached(id) ==
    /\ Loadable(id)
    /\ Begin("start_detached", id, NoName, None, "start_spawn")
    /\ UNCHANGED <<store_vars, env_vars, hist, side_vars>>

\* lines 139-154: the profile is written; the shell reports the pid of the
\* background payload, which spawn_detached writes to container.pid
StartSpawn ==
    /\ pc = "start_spawn"
    /\ \/ /\ next_pid <= MaxPid
          /\ child' = Some(next_pid)
          /\ alive' = alive \cup {next_pid}
          /\ next_pid' = next_pid + 1
          /\ aux_files' = [write_profile(cid) EXCEPT ![cid] = @ \cup {"container.log"}]
          /\ pid_file' = Insert(pid_file, cid, next_pid)
          /\ pc' = "start_persist"
          /\ UNCHANGED <<result, retcode, lstate>>
       \/ /\ aux_files' = write_profile(cid)
          /\ Return("Spawn", None)
          /\ UNCHANGED <<alive, next_pid, pid_file>>
    /\ UNCHANGED <<dirs, config, cstate, names, short_ids, now,
                   op, cid, arg_name, arg_timeout, entry, trace, hist, verb, side_vars>>

\* lines 157-163: the running state and the pid are persisted
StartPersist ==
    /\ pc = "start_persist"
    /\ LET state == [load_state(cid) EXCEPT !.running = TRUE,
                                            !.pid = child,
                                            !.started_at = now]
       IN cstate' = save_state(cid, state)
    /\ Record(cid, "start_detached")
    /\ Return("Ok", None)
    /\ UNCHANGED <<dirs, config, aux_files, pid_file, names, short_ids, env_vars,
                   op, cid, arg_name, arg_timeout, entry, trace, verb, side_vars>>


(***************************************************************************)
(* Container::stop.                                                        *)
(***************************************************************************)
Ev(e, a) == [ev |-> e, arg |-> a]

CallStop(id, timeout) ==
    /\ Loadable(id)
    /\ Begin("stop", id, NoName, timeout, "stop_begin")
    /\ UNCHANGED <<store_vars, env_vars, hist, side_vars>>

\* StopBegin without the early return for a container that is not running
StopBegin_NoEarlyReturn ==
    /\ pc = "stop_begin"
    /\ lstate' = load_state(cid)
    /\ IF IsSome(load_state(cid).pid)
       THEN /\ trace' = Append(trace, Ev("SIGTERM", Unwrap(load_state(cid).pid)))
            /\ pc' = "stop_sleep"
       ELSE /\ pc' = "stop_save"
            /\ UNCHANGED trace
    /\ UNCHANGED <<result, retcode, child, hist>>
    /\ UNCHANGED <<store_vars, env_vars, op, cid, arg_name, arg_timeout, entry, verb, side_vars>>

\* lines 168-178: a container that is not running is left alone; otherwise
\* SIGTERM goes to the recorded pid, if there is one
StopBegin ==
    /\ pc = "stop_begin"
    /\ IF ~load_state(cid).running
       THEN /\ Return("Ok", None)
            /\ Record(cid, "stop")
            /\ UNCHANGED trace
       ELSE /\ lstate' = load_state(cid)
            /\ IF IsSome(load_state(cid).pid)
               THEN /\ trace' = Append(trace, Ev("SIGTERM", Unwrap(load_state(cid).pid)))
                    /\ pc' = "stop_sleep"
               ELSE /\ pc' = "stop_save"
                    /\ UNCHANGED trace
            /\ UNCHANGED <<result, retcode, child, hist>>
    /\ UNCHANGED <<store_vars, env_vars, op, cid, arg_name, arg_timeout, entry, verb, side_vars>>

\* lines 181-182: the sleep of timeout.unwrap_or(10) seconds has elapsed
StopSleep ==
    /\ pc = "stop_sleep"
    /\ trace' = Append(trace, Ev("sleep", IF IsSome(arg_timeout) THEN Unwrap(arg_timeout)
                                                                 ELSE DefaultStopTimeout))
    /\ pc' = "stop_probe"
    /\ UNCHANGED <<store_vars, env_vars, op, cid, arg_name, arg_timeout, lstate, entry,
                   child, result, retcode, hist, verb, side_vars>>

\* StopProbe with SIGKILL sent whatever the probe says
StopProbe_AlwaysKill ==
    /\ pc = "stop_probe"
    /\ LET pid == Unwrap(lstate.pid)
       IN /\ trace' = trace \o <<Ev(IF kill_probe(pid) THEN "probe_alive" ELSE "probe_dead", pid),
                                  Ev("SIGKILL", pid)>>
          /\ alive' = alive \ {pid}
    /\ pc' = "stop_save"
    /\ UNCHANGED <<store_vars, now, next_pid, op, cid, arg_name, arg_timeout, lstate, entry,
                   child, result, retcode, hist, verb, side_vars>>

\* lines 185-190: the probe with signal 0, and SIGKILL if the process is still there
StopProbe ==
    /\ pc = "stop_probe"
    /\ LET pid == Unwrap(lstate.pid)
       IN IF kill_probe(pid)
          THEN /\ trace' = trace \o <<Ev("probe_alive", pid), Ev("SIGKILL", pid)>>
               /\ alive' = alive \ {pid}
          ELSE /\ trace' = Append(trace, Ev("probe_dead", pid))
               /\ UNCHANGED alive
    /\ pc' = "stop_save"
    /\ UNCHANGED <<store_vars, now, next_pid, op, cid, arg_name, arg_timeout, lstate, entry,
                   child, result, retcode, hist, verb, side_vars>>

\* lines 194-200: the stopped state is persisted
StopSave ==
    /\ pc = "stop_save"
    /\ LET state == [lstate EXCEPT !.running = FALSE,
                                   !.finished_at = Some(now),
                                   !.pid = None]
       IN cstate' = save_state(cid, state)
    /\ Record(cid, "stop")
    /\ Return("Ok", None)
    /\ UNCHANGED <<dirs, config, aux_files, pid_file, names, short_ids, env_vars,
                   op, cid, arg_name, arg_timeout, entry, trace, verb, side_vars>>

(***************************************************************************)
(* Container::exec.                                                        *)
(***************************************************************************)
CallExec(id) ==
    /\ Loadable(id)
    /\ Begin("exec", id, NoName, None, "exec_begin")
    /\ UNCHANGED <<store_vars, env_vars, hist, side_vars>>

\* ExecBegin without the check that the container is running
ExecBegin_NoRunningCheck ==
    /\ pc = "exec_begin"
    /\ aux_files' = write_profile(cid)
    /\ \/ /\ next_pid <= MaxPid
          /\ child' = Some(next_pid)
          /\ alive' = alive \cup {next_pid}
          /\ next_pid' = next_pid + 1
          /\ pc' = "exec_wait"
          /\ lstate' = load_state(cid)
          /\ UNCHANGED <<result, retcode>>
       \/ /\ Return("Spawn", None)
          /\ UNCHANGED <<alive, next_pid>>
    /\ UNCHANGED <<dirs, config, cstate, pid_file, names, short_ids, now,
                   op, cid, arg_name, arg_timeout, entry, trace, hist, verb, side_vars>>

\* lines 213-258: refused unless running; otherwise the profile is written and
\* a second foreground process is spawned against the same rootfs
ExecBegin ==
    /\ pc = "exec_begin"
    /\ IF ~load_state(cid).running
       THEN /\ Return("ContainerNotRunning", None)
            /\ UNCHANGED <<aux_files, alive, next_pid>>
       ELSE /\ aux_files' = write_profile(cid)
            /\ \/ /\ next_pid <= MaxPid
                  /\ child' = Some(next_pid)
                  /\ alive' = alive \cup {next_pid}
                  /\ next_pid' = next_pid + 1
                  /\ pc' = "exec_wait"
                  /\ lstate' = load_state(cid)
                  /\ UNCHANGED <<result, retcode>>
               \/ /\ Return("Spawn", None)
                  /\ UNCHANGED <<alive, next_pid>>
    /\ UNCHANGED <<dirs, config, cstate, pid_file, names, short_ids, now,
                   op, cid, arg_name, arg_timeout, entry, trace, hist, verb, side_vars>>

\* line 258: the exec'd process has exited with exit_code, which exec returns
ExecFinish(exit_code) ==
    /\ pc = "exec_wait"
    /\ alive' = alive \ {Unwrap(child)}
    /\ Return("Ok", Some(exit_code))
    /\ UNCHANGED <<store_vars, now, next_pid, op, cid, arg_name, arg_timeout, entry,
                   trace, hist, verb, side_vars>>

(***************************************************************************)
(* The run and start verbs (cli/run.rs, cli/start.rs): what they do around *)
(* Container::run and Container::start_detached.                           *)
(***************************************************************************)
\* run.rs lines 105-182: the name is checked, the container created under the
\* fresh uuid with auto_remove = args.rm, its rootfs set up, and the verb hands
\* over to Container::start_detached or Container::run
RunVerb(uuid, name, detach, rm) ==
    /\ pc = "idle"
    /\ ~verb.pending
    /\ arg_name' = name
    /\ arg_timeout' = None
    /\ trace' = << >>
    /\ IF exists(name)
       THEN /\ op' = "run_verb"
            /\ entry' = None
            /\ Return("ContainerExists", None)
            /\ verb' = NoVerb
            /\ UNCHANGED <<store_vars, hist, cid>>
       ELSE /\ uuid \notin dirs
            /\ CreateEffect(uuid, name, rm)
            /\ aux_files' = Insert(aux_files, uuid, {"rootfs"})
            /\ cid' = uuid
            /\ entry' = Some(InitialState(now))
            /\ op' = IF detach THEN "start_detached" ELSE "run"
            /\ pc' = IF detach THEN "start_spawn" ELSE "run_begin"
            /\ result' = "pending"
            /\ retcode' = None
            /\ child' = None
            /\ lstate' = DefaultState
            /\ verb' = [kind |-> "run", pending |-> TRUE, detach |-> detach, rm |-> rm,
                        auto_remove |-> rm, name |-> name]
            /\ UNCHANGED pid_file
    /\ UNCHANGED <<env_vars, side_vars>>

\* start.rs lines 39-71, for one container reference: the container is looked
\* up, refused when its state says running, loaded, and handed to
\* Container::run (--attach) or Container::start_detached
StartVerb(container_ref, attach) ==
    /\ pc = "idle"
    /\ ~verb.pending
    /\ arg_name' = NoName
    /\ arg_timeout' = None
    /\ trace' = << >>
    /\ child' = None
    /\ lstate' = DefaultState
    /\ retcode' = None
    /\ IF ~IsSome(find(container_ref))
       THEN /\ op' = "start_verb"
            /\ pc' = "idle"
            /\ result' = "NoSuchContainer"
            /\ entry' = None
            /\ verb' = NoVerb
            /\ UNCHANGED cid
       ELSE LET container_id == Unwrap(find(container_ref))
            IN /\ cid' = container_id
               /\ entry' = Persisted(container_id)
               /\ IF load_state(container_id).running
                  THEN /\ op' = "start_verb"
                       /\ pc' = "idle"
                       /\ result' = "AlreadyRunning"
                       /\ verb' = NoVerb
                  ELSE IF container_id \notin DOMAIN config
                  THEN /\ op' = "start_verb"
                       /\ pc' = "idle"
                       /\ result' = "ContainerNotFound"
                       /\ verb' = NoVerb
                  ELSE /\ op' = IF attach THEN "run" ELSE "start_detached"
                       /\ pc' = IF attach THEN "run_begin" ELSE "start_spawn"
                       /\ result' = "pending"
                       /\ verb' = [kind |-> "start", pending |-> TRUE, detach |-> ~attach,
                                   rm |-> FALSE,
                                   auto_remove |-> config[container_id].auto_remove,
                                   name |-> config[container_id].name]
    /\ UNCHANGED <<store_vars, env_vars, hist, side_vars>>

\* the verb ends after Container::run or Container::start_detached returned:
\* run.rs lines 182-189 remove the container when --rm was given and run
\* returned Ok (an error leaves through `?`); start.rs lines 58-64 and the
\* detached branches only report and exit
VerbExit ==
    /\ pc = "idle"
    /\ verb.pending
    /\ verb' = [verb EXCEPT !.pending = FALSE]
    /\ op' = "verb_exit"
    /\ IF /\ verb.kind = "run"
          /\ ~verb.detach
          /\ verb.rm
          /\ result = "Ok"
          /\ cid \in DOMAIN config
       THEN RemoveEffect(cid)
       ELSE UNCHANGED <<store_vars, hist>>
    /\ UNCHANGED <<env_vars, pc, cid, arg_name, arg_timeout, lstate, entry, child, trace,
                   result, retcode, side_vars>>

(***************************************************************************)
(* RootFs (filesystem/rootfs.rs) of a container id: rootfs_path is         *)
(* containers/<id>/rootfs.                                                 *)
(***************************************************************************)
\* RootFs::setup: create_dir_all(rootfs_path) makes containers/<id>/ and
\* rootfs/ in it; the standard directories, the symlinks, the layers and the
\* volumes then go into rootfs/, and any of these steps may fail
RootFsSetup(id) ==
    /\ pc = "idle"
    /\ ~verb.pending
    /\ verb' = NoVerb
    /\ op' = "rootfs_setup"
    /\ cid' = id
    /\ arg_name' = NoName
    /\ arg_timeout' = None
    /\ entry' = Persisted(id)
    /\ trace' = << >>
    /\ dirs' = dirs \cup {id}
    /\ aux_files' = IF id \in DOMAIN aux_files
                    THEN [aux_files EXCEPT ![id] = @ \cup {"rootfs"}]
                    ELSE Insert(aux_files, id, {"rootfs"})
    /\ \/ Return("Ok", None)
       \/ Return("Io", None)
    /\ UNCHANGED <<config, cstate, pid_file, names, short_ids, env_vars, hist, side_vars>>

\* RootFs::cleanup: remove_dir_all(rootfs_path) where it exists
RootFsCleanup(id) ==
    /\ pc = "idle"
    /\ ~verb.pending
    /\ verb' = NoVerb
    /\ op' = "rootfs_cleanup"
    /\ cid' = id
    /\ arg_name' = NoName
    /\ arg_timeout' = None
    /\ entry' = Persisted(id)
    /\ trace' = << >>
    /\ aux_files' = IF id \in DOMAIN aux_files
                    THEN [aux_files EXCEPT ![id] = @ \ {"rootfs"}]
                    ELSE aux_files
    /\ Return("Ok", None)
    /\ UNCHANGED <<dirs, config, cstate, pid_file, names, short_ids, env_vars, hist, side_vars>>

(***************************************************************************)
(* The environment: the clock and the payloads.                            *)
(***************************************************************************)
Tick ==
    /\ now < MaxClock
    /\ now' = now + 1
    /\ UNCHANGED <<store_vars, alive, next_pid, call_vars, hist, verb, side_vars>>

\* a detached payload ends, by itself or upon a signal it was sent
PayloadExit(pid) ==
    /\ pid \in alive
    /\ ~(pc \in {"run_wait", "exec_wait"} /\ child = Some(pid))
    /\ alive' = alive \ {pid}
    /\ UNCHANGED <<store_vars, now, next_pid, call_vars, hist, verb, side_vars>>

(***************************************************************************)
(* A walk through the transition table (runtime/state.rs).                 *)
(***************************************************************************)
FsmStep(event) ==
    /\ fsm_steps < MaxEvents
    /\ fsm_steps' = fsm_steps + 1
    /\ fsm_from' = fsm_status
    /\ fsm_event' = event
    /\ fsm_valid' = is_valid_transition(fsm_status, event)
    /\ fsm_applied' = apply(fsm_status, event)
    /\ fsm_status' = IF IsSome(apply(fsm_status, event))
                     THEN Unwrap(apply(fsm_status, event))
                     ELSE fsm_status
    /\ UNCHANGED <<runtime_vars, ref_vars, manifest_vars, shell_vars, image_vars, more_vars>>

(***************************************************************************)
(* An image reference parsed and rendered back (image/oci.rs).             *)
(***************************************************************************)
ParseReference ==
    /\ ref_parsed = None
    /\ ref_parsed' = Some(parse(ref_text))
    /\ ref_reparsed' = IF parse(ref_text).ok
                       THEN Some(parse(full_name(parse(ref_text))))
                       ELSE None
    /\ UNCHANGED <<runtime_vars, fsm_vars, ref_text, manifest_vars, shell_vars, image_vars,
                   more_vars>>

(***************************************************************************)
(* A manifest list answered by the registry (image/registry.rs).           *)
(***************************************************************************)
SelectManifest ==
    /\ selected = None
    /\ selected' = Some(platform_manifest(index_manifests, get_host_arch(host)))
    /\ UNCHANGED <<runtime_vars, fsm_vars, ref_vars, host, index_manifests, shell_vars,
                   image_vars, more_vars>>

(***************************************************************************)
(* The sh -c text of a detached launch (darwin/spawn.rs).                  *)
(***************************************************************************)
BuildDetachedCommand ==
    /\ sh_text = None
    /\ sh_text' = Some(detached_command(sh_fields))
    /\ UNCHANGED <<runtime_vars, fsm_vars, ref_vars, manifest_vars, sh_fields, image_vars,
                   more_vars>>

(***************************************************************************)
(* The image store (storage/images.rs), the layer store (image/layer.rs)   *)
(* and pull (image/registry.rs).                                           *)
(***************************************************************************)
\* two image ids of 13 characters that differ within their first 12 characters
ImageId1 == <<"1", "1", "1", "1", "1", "1", "1", "1", "1", "1", "1", "1", "f">>
ImageId2 == <<"2", "2", "2", "2", "2", "2", "2", "2", "2", "2", "2", "2", "f">>
ImageIds == {ImageId1, ImageId2}

\* two layer digests, as LayerManager and ImageMetadata.layers name them
LayerA == <<"a", "a", "a", "a", "a", "a", "a", "a", "a", "a", "a", "a">>
LayerB == <<"b", "b", "b", "b", "b", "b", "b", "b", "b", "b", "b", "b">>

Sha256Prefix == <<"sha256", ":">>
\* str::strip_prefix
strip_prefix(text, prefix) ==
    IF Len(text) >= Len(prefix) /\ SubSeq(text, 1, Len(prefix)) = prefix
    THEN Some(SubSeq(text, Len(prefix) + 1, Len(text)))
    ELSE None
\* Option::unwrap_or
unwrap_or(o, default) == IF IsSome(o) THEN Unwrap(o) ELSE default

\* the manifests the registry answers with: the config digest and the layer digests
RegistryManifests ==
    { [config |-> Sha256Prefix \o ImageId1, layers |-> <<Sha256Prefix \o LayerA>>],
      [config |-> Sha256Prefix \o ImageId2,
       layers |-> <<Sha256Prefix \o LayerA, Sha256Prefix \o LayerB>>] }
\* pull's layer_digests and image_id of a manifest
layer_digests(manifest) ==
    [i \in 1..Len(manifest.layers) |->
        unwrap_or(strip_prefix(manifest.layers[i], Sha256Prefix), manifest.layers[i])]
image_id_of(manifest) == unwrap_or(strip_prefix(manifest.config, Sha256Prefix), manifest.config)
\* the layers an image of this id is stored with
LayersOf(image_id) ==
    layer_digests(CHOOSE m \in RegistryManifests : image_id_of(m) = image_id)

\* the references images are stored, tagged and pulled under
ImageRefs == {parse(Alpine), parse(LocalRegistry)}
\* the key of ImageIndex.tags: format!("{}:{}", repository_with_registry(), tag())
tag_key(reference) == repository_with_registry(reference) \o <<":">> \o reference.tag

\* ImageIndex::default
EmptyImageIndex == [tags |-> EmptyMap, short_ids |-> EmptyMap]
\* the files of a layer directory
LayerTar == "layer.tar"

\* ImageStore::find over an index and the image directories
find_in(index, image_dirs, name_or_id) ==
    LET with_latest == name_or_id \o <<":">> \o Latest
        clean_id == unwrap_or(strip_prefix(name_or_id, Sha256Prefix), name_or_id)
    IN IF name_or_id \in DOMAIN index.tags THEN Some(index.tags[name_or_id])
       ELSE IF ~Contains(name_or_id, ":") /\ with_latest \in DOMAIN index.tags
            THEN Some(index.tags[with_latest])
       ELSE IF name_or_id \in DOMAIN index.short_ids THEN Some(index.short_ids[name_or_id])
       ELSE IF name_or_id \in Values(index.short_ids) THEN Some(name_or_id)
       ELSE IF clean_id \in image_dirs THEN Some(clean_id)
       ELSE None

\* no image store call was made
NoImageCall ==
    [op |-> "none", id |-> << >>, reference |-> None, prune |-> FALSE, result |-> "Ok"]
\* no pull is in flight
NoPull == [pc |-> "idle", idx |-> 0, reference |-> None, manifest |-> None]
\* what fetch_layer can end with, and what it leaves of the layer directory
FetchOutcomes ==
    { [result |-> "Ok", dir |-> TRUE, tar |-> TRUE],
      [result |-> "Registry", dir |-> FALSE, tar |-> FALSE],
      [result |-> "Http", dir |-> FALSE, tar |-> FALSE],
      [result |-> "Http", dir |-> TRUE, tar |-> FALSE],
      [result |-> "Io", dir |-> TRUE, tar |-> FALSE] }

\* ImageStore::find and find_image on the store as it is
image_find(name_or_id) == find_in(image_index, DOMAIN images, name_or_id)
find_image(reference) == image_find(tag_key(reference))
\* LayerManager::exists
layer_exists(digest) == digest \in DOMAIN layer_dirs

\* index.tags.insert(tag_key, image_id), which only binds a key that is free
insert_tag_if_absent(tags, key, image_id) ==
    IF key \in DOMAIN tags THEN tags ELSE Insert(tags, key, image_id)
\* index.tags.insert(tag_key, image_id)
insert_tag(tags, key, image_id) == Insert(tags, key, image_id)

\* remove's loop over metadata.layers, which deletes the layer directories
remove_layers_deleting(layer_store, layers, prune_layers) ==
    IF prune_layers
    THEN [d \in DOMAIN layer_store \ {layers[i] : i \in 1..Len(layers)} |-> layer_store[d]]
    ELSE layer_store
\* remove's loop over metadata.layers: its body is empty
remove_layers(layer_store, layers, prune_layers) == layer_store

\* the ids whose latest store is still in force once key is bound to image_id
StillStored(image_id, key) ==
    [x \in {y \in DOMAIN stored : y = image_id \/ tag_key(stored[y]) /= key} |-> stored[x]]

\* ImageStore::store: metadata.json written, the tag and the short id indexed
StoreEffect(image_id, repository, tag, layers) ==
    /\ images' = Insert(images, image_id,
                        [repository |-> repository, tag |-> tag, layers |-> layers])
    /\ image_index' =
        [tags |-> IF IsSome(repository) /\ IsSome(tag)
                  THEN insert_tag(image_index.tags,
                                  Unwrap(repository) \o <<":">> \o Unwrap(tag), image_id)
                  ELSE image_index.tags,
         short_ids |-> Insert(image_index.short_ids, ShortId(image_id), image_id)]

\* ImageStore::store, called by build with the reference of its tag, if any
ImageStore(image_id, reference) ==
    /\ pull.pc = "idle"
    /\ StoreEffect(image_id,
                   IF IsSome(reference)
                   THEN Some(repository_with_registry(Unwrap(reference))) ELSE None,
                   IF IsSome(reference) THEN Some(Unwrap(reference).tag) ELSE None,
                   LayersOf(image_id))
    /\ stored' = IF IsSome(reference)
                 THEN Insert(StillStored(image_id, tag_key(Unwrap(reference))),
                             image_id, Unwrap(reference))
                 ELSE stored
    /\ image_call' = [op |-> "store", id |-> image_id, reference |-> reference,
                      prune |-> FALSE, result |-> "Ok"]
    /\ UNCHANGED <<layer_dirs, pull, other_than_images>>

\* ImageStore::tag
ImageTag(image_id, reference) ==
    /\ pull.pc = "idle"
    /\ IF image_id \notin DOMAIN images
       THEN /\ image_call' = [op |-> "tag", id |-> image_id, reference |-> Some(reference),
                              prune |-> FALSE, result |-> "ImageNotFound"]
            /\ UNCHANGED <<images, image_index, stored>>
       ELSE /\ images' = [images EXCEPT
                            ![image_id].repository = Some(repository_with_registry(reference)),
                            ![image_id].tag = Some(reference.tag)]
            /\ image_index' = [image_index EXCEPT
                                 !.tags = insert_tag(@, tag_key(reference), image_id)]
            /\ stored' = StillStored(image_id, tag_key(reference))
            /\ image_call' = [op |-> "tag", id |-> image_id, reference |-> Some(reference),
                              prune |-> FALSE, result |-> "Ok"]
    /\ UNCHANGED <<layer_dirs, pull, other_than_images>>

\* ImageStore::remove: its effect on the store and its Result
ImageRemoveEffect(image_id, prune_layers) ==
    /\ IF image_id \notin DOMAIN images
       THEN /\ image_call' = [op |-> "remove", id |-> image_id, reference |-> None,
                              prune |-> prune_layers, result |-> "ImageNotFound"]
            /\ UNCHANGED <<images, image_index, layer_dirs, stored>>
       ELSE LET metadata == images[image_id]
            IN /\ images' = Delete(images, image_id)
               /\ layer_dirs' = remove_layers(layer_dirs, metadata.layers, prune_layers)
               /\ image_index' =
                    [tags |-> IF IsSome(metadata.repository) /\ IsSome(metadata.tag)
                              THEN Delete(image_index.tags,
                                          Unwrap(metadata.repository) \o <<":">>
                                              \o Unwrap(metadata.tag))
                              ELSE image_index.tags,
                     short_ids |-> Delete(image_index.short_ids, ShortId(image_id))]
               /\ stored' = Delete(stored, image_id)
               /\ image_call' = [op |-> "remove", id |-> image_id, reference |-> None,
                                 prune |-> prune_layers, result |-> "Ok"]

\* ImageStore::remove
ImageRemove(image_id, prune_layers) ==
    /\ pull.pc = "idle"
    /\ ImageRemoveEffect(image_id, prune_layers)
    /\ UNCHANGED <<pull, other_than_images>>

\* pull: the token, the manifest or the config is not to be had
PullRefused(reference) ==
    /\ pull.pc = "idle"
    /\ image_call' = [op |-> "pull", id |-> << >>, reference |-> Some(reference),
                      prune |-> FALSE, result |-> "Registry"]
    /\ UNCHANGED <<images, image_index, layer_dirs, pull, stored, other_than_images>>

\* pull: the token, the manifest and the config fetched
PullBegin(reference, manifest) ==
    /\ pull.pc = "idle"
    /\ pull' = [pc |-> "layers", idx |-> 1, reference |-> Some(reference),
                manifest |-> Some(manifest)]
    /\ image_call' = [op |-> "pull", id |-> image_id_of(manifest),
                      reference |-> Some(reference), prune |-> FALSE, result |-> "pending"]
    /\ UNCHANGED <<images, image_index, layer_dirs, stored, other_than_images>>

\* pull: one turn of the loop over manifest.layers, with fetch_layer
PullLayer ==
    /\ pull.pc = "layers"
    /\ pull.idx <= Len(Unwrap(pull.manifest).layers)
    /\ LET digest == layer_digests(Unwrap(pull.manifest))[pull.idx]
       IN IF layer_exists(digest)
          THEN /\ pull' = [pull EXCEPT !.idx = @ + 1]
               /\ UNCHANGED <<layer_dirs, image_call>>
          ELSE \E outcome \in FetchOutcomes :
                /\ layer_dirs' =
                     IF outcome.dir
                     THEN Insert(layer_dirs, digest,
                                 IF outcome.tar THEN {LayerTar} ELSE {})
                     ELSE layer_dirs
                /\ IF outcome.result = "Ok"
                   THEN /\ pull' = [pull EXCEPT !.idx = @ + 1]
                        /\ UNCHANGED image_call
                   ELSE /\ pull' = NoPull
                        /\ image_call' = [image_call EXCEPT !.result = outcome.result]
    /\ UNCHANGED <<images, image_index, stored, other_than_images>>

\* pull: the image stored under the reference pulled
PullStore ==
    /\ pull.pc = "layers"
    /\ pull.idx > Len(Unwrap(pull.manifest).layers)
    /\ LET reference == Unwrap(pull.reference)
           image_id == image_id_of(Unwrap(pull.manifest))
       IN /\ StoreEffect(image_id, Some(repository_with_registry(reference)),
                         Some(reference.tag), layer_digests(Unwrap(pull.manifest)))
          /\ stored' = Insert(StillStored(image_id, tag_key(reference)), image_id, reference)
    /\ image_call' = [image_call EXCEPT !.result = "Ok"]
    /\ pull' = NoPull
    /\ UNCHANGED <<layer_dirs, other_than_images>>

(***************************************************************************)
(* Container::stop called by another process (cli/stop.rs, cli/rm.rs)      *)
(* while this invocation waits for its foreground child.                   *)
(***************************************************************************)
\* container.rs lines 168-200 where the persisted state holds no pid: there is
\* nothing to signal and nothing to wait for, the stopped state is persisted
PeerStop(id) ==
    /\ pc = "run_wait"
    /\ Loadable(id)
    /\ LET state == load_state(id)
       IN IF ~state.running
          THEN /\ peer' = [op |-> "stop", id |-> id, was_running |-> FALSE, result |-> "Ok"]
               /\ UNCHANGED cstate
          ELSE /\ state.pid = None
               /\ cstate' = save_state(id, [state EXCEPT !.running = FALSE,
                                                         !.finished_at = Some(now),
                                                         !.pid = None])
               /\ peer' = [op |-> "stop", id |-> id, was_running |-> TRUE, result |-> "Ok"]
    /\ Record(id, "stop")
    /\ UNCHANGED <<dirs, config, aux_files, pid_file, names, short_ids, env_vars, call_vars,
                   verb, beside_peer_vars>>

(***************************************************************************)
(* The batch verbs rm, rmi (cli/rm.rs), stop (cli/stop.rs) and start       *)
(* (cli/start.rs): one invocation walks through its items.                 *)
(***************************************************************************)
\* the image a container of the model was created from (ContainerConfig.image_id)
ImageOf(container_id) == IF container_id = Id1 THEN ImageId1 ELSE ImageId2
\* the name a container of the model is created under
NameOf(container_id) == IF container_id = Id1 THEN NameA ELSE <<6>>
\* a reference that names no container, and one that names no image
NoSuchContainer == <<8>>
NoSuchImage == <<"nosuch">>
\* the items of the container verbs and of rmi
ContainerItems == {NameA, ShortId(Id2), NoSuchContainer}
ImageItems == {full_name(parse(Alpine)), ShortId(ImageId2), NoSuchImage}
\* the items of an invocation
ItemLists(refs) == UNION {[1..n -> refs] : n \in 1..MaxItems}
\* the arguments of the verbs
BatchArgs ==
    { [verb |-> "rm", force |-> f, attach |-> FALSE, no_prune |-> FALSE] : f \in BOOLEAN }
    \cup { [verb |-> "rmi", force |-> f, attach |-> FALSE, no_prune |-> FALSE] :
             f \in BOOLEAN }
    \cup { [verb |-> "stop", force |-> FALSE, attach |-> FALSE, no_prune |-> FALSE] }
    \cup { [verb |-> "start", force |-> FALSE, attach |-> a, no_prune |-> FALSE] :
             a \in BOOLEAN }

\* the verb begins: its loop stands before the first item
BatchBegin(args, items) ==
    /\ batch = NoBatch
    /\ pc = "idle"
    /\ pull.pc = "idle"
    /\ batch' = [args |-> args, items |-> items, idx |-> 1, log |-> << >>, ended |-> "no"]
    /\ UNCHANGED <<runtime_vars, beside_batch_vars>>

\* a loop whose error line is followed by a return instead of `continue`
ContinueReturning(outcome) ==
    batch' = [batch EXCEPT !.log = Append(@, [item |-> batch.items[batch.idx],
                                             outcome |-> outcome]),
                           !.idx = @ + 1,
                           !.ended = IF outcome = "Ok" /\ batch.idx < Len(batch.items)
                                     THEN "no" ELSE "ok"]
\* the loop has dealt with its item with this outcome and goes on (`continue`
\* or the end of the loop body); after the last item the verb returns Ok(())
Continue(outcome) ==
    batch' = [batch EXCEPT !.log = Append(@, [item |-> batch.items[batch.idx],
                                             outcome |-> outcome]),
                           !.idx = @ + 1,
                           !.ended = IF batch.idx = Len(batch.items) THEN "ok" ELSE "no"]
\* the verb leaves its loop at this item: an error through `?`, or process::exit
Leave(outcome, how) ==
    batch' = [batch EXCEPT !.log = Append(@, [item |-> batch.items[batch.idx],
                                             outcome |-> outcome]),
                           !.ended = how]

\* the process of the verb has exited
BatchReturn ==
    /\ batch /= NoBatch
    /\ batch.ended /= "no"
    /\ batch' = NoBatch
    /\ UNCHANGED <<runtime_vars, beside_batch_vars>>

\* Container::stop as one step: SIGTERM, the sleep, the probe and SIGKILL end
\* the recorded pid; the stopped state is persisted
StopEffect(id) ==
    LET state == load_state(id)
    IN IF ~state.running
       THEN UNCHANGED <<alive, cstate>>
       ELSE /\ alive' = IF IsSome(state.pid) THEN alive \ {Unwrap(state.pid)} ELSE alive
            /\ cstate' = save_state(id, [state EXCEPT !.running = FALSE,
                                                      !.finished_at = Some(now),
                                                      !.pid = None])

\* rm.rs lines 48-82 for the item at hand
BatchRm ==
    /\ batch.ended = "no"
    /\ batch.args.verb = "rm"
    /\ pc = "idle"
    /\ LET container_ref == batch.items[batch.idx]
           found == find(container_ref)
           container_id == Unwrap(found)
           state == load_state(container_id)
       IN IF ~IsSome(found)
          THEN /\ Continue("NoSuchContainer")
               /\ UNCHANGED <<store_vars, alive, hist>>
          ELSE IF state.running /\ ~batch.args.force
          THEN /\ Continue("Running")
               /\ UNCHANGED <<store_vars, alive, hist>>
          ELSE IF container_id \notin DOMAIN config
          THEN \* load fails in the forced stop or in ContainerStore::remove,
               \* the latter after RootFs::cleanup
               /\ Leave("ContainerNotFound", "err")
               /\ aux_files' = IF state.running \/ container_id \notin DOMAIN aux_files
                               THEN aux_files
                               ELSE [aux_files EXCEPT ![container_id] = @ \ {"rootfs"}]
               /\ UNCHANGED <<dirs, config, cstate, pid_file, names, short_ids, alive, hist>>
          ELSE /\ alive' = IF state.running /\ IsSome(state.pid)
                           THEN alive \ {Unwrap(state.pid)} ELSE alive
               /\ RemoveEffect(container_id)
               /\ Continue("Ok")
    /\ UNCHANGED <<now, next_pid, call_vars, verb, beside_batch_vars>>

\* stop.rs lines 25-45 for the item at hand
BatchStop ==
    /\ batch.ended = "no"
    /\ batch.args.verb = "stop"
    /\ pc = "idle"
    /\ LET container_ref == batch.items[batch.idx]
           found == find(container_ref)
           container_id == Unwrap(found)
       IN IF ~IsSome(found)
          THEN /\ Continue("NoSuchContainer")
               /\ UNCHANGED <<alive, cstate, hist>>
          ELSE IF ~load_state(container_id).running
          THEN /\ Continue("NotRunning")
               /\ UNCHANGED <<alive, cstate, hist>>
          ELSE IF container_id \notin DOMAIN config
          THEN /\ Leave("ContainerNotFound", "err")
               /\ UNCHANGED <<alive, cstate, hist>>
          ELSE /\ StopEffect(container_id)
               /\ Record(container_id, "stop")
               /\ Continue("Ok")
    /\ UNCHANGED <<dirs, config, aux_files, pid_file, names, short_ids, now, next_pid,
                   call_vars, verb, beside_batch_vars>>

\* start.rs lines 43-67 for the item at hand; Container::run and
\* Container::start_detached as one step each
BatchStart ==
    /\ batch.ended = "no"
    /\ batch.args.verb = "start"
    /\ pc = "idle"
    /\ LET container_ref == batch.items[batch.idx]
           found == find(container_ref)
           container_id == Unwrap(found)
           state == load_state(container_id)
       IN IF ~IsSome(found)
          THEN /\ Continue("NoSuchContainer")
               /\ UNCHANGED <<store_vars, alive, next_pid, hist>>
          ELSE IF state.running
          THEN /\ Continue("AlreadyRunning")
               /\ UNCHANGED <<store_vars, alive, next_pid, hist>>
          ELSE IF container_id \notin DOMAIN config
          THEN /\ Leave("ContainerNotFound", "err")
               /\ UNCHANGED <<store_vars, alive, next_pid, hist>>
          ELSE IF batch.args.attach
          THEN \* run: the payload cannot be spawned, or it runs to its end and
               \* the verb exits with its code
               /\ aux_files' = write_profile(container_id)
               /\ \/ /\ Leave("Spawn", "err")
                     /\ cstate' = save_state(container_id,
                                             [state EXCEPT !.running = TRUE,
                                                           !.started_at = now])
                     /\ UNCHANGED <<next_pid, hist>>
                  \/ \E exit_code \in ExitCodes :
                     /\ next_pid <= MaxPid
                     /\ next_pid' = next_pid + 1
                     /\ cstate' = save_state(container_id,
                                             [state EXCEPT !.running = FALSE,
                                                           !.started_at = now,
                                                           !.exit_code = Some(exit_code),
                                                           !.finished_at = Some(now),
                                                           !.pid = None])
                     /\ Record(container_id, "run")
                     /\ Leave("Ok", "exit")
               /\ UNCHANGED <<dirs, config, pid_file, names, short_ids, alive>>
          ELSE \/ /\ aux_files' = write_profile(container_id)
                  /\ Leave("Spawn", "err")
                  /\ UNCHANGED <<dirs, config, cstate, pid_file, names, short_ids, alive,
                                 next_pid, hist>>
               \/ /\ next_pid <= MaxPid
                  /\ next_pid' = next_pid + 1
                  /\ alive' = alive \cup {next_pid}
                  /\ aux_files' = [write_profile(container_id) EXCEPT
                                     ![container_id] = @ \cup {"container.log"}]
                  /\ pid_file' = Insert(pid_file, container_id, next_pid)
                  /\ cstate' = save_state(container_id,
                                          [state EXCEPT !.running = TRUE,
                                                        !.pid = Some(next_pid),
                                                        !.started_at = now])
                  /\ Record(container_id, "start_detached")
                  /\ Continue("Ok")
                  /\ UNCHANGED <<dirs, config, names, short_ids>>
    /\ UNCHANGED <<now, call_vars, verb, beside_batch_vars>>

\* rm.rs lines 93-121 for the item at hand
BatchRmi ==
    /\ batch.ended = "no"
    /\ batch.args.verb = "rmi"
    /\ pull.pc = "idle"
    /\ LET image_ref == batch.items[batch.idx]
           found == image_find(image_ref)
           image_id == Unwrap(found)
           using_containers == {c \in DOMAIN config : ImageOf(c) = image_id}
       IN IF ~IsSome(found)
          THEN /\ Continue("NoSuchImage")
               /\ UNCHANGED <<images, image_index, layer_dirs, image_call, stored>>
          ELSE IF using_containers /= {} /\ ~batch.args.force
          THEN /\ Continue("InUse")
               /\ UNCHANGED <<images, image_index, layer_dirs, image_call, stored>>
          ELSE /\ ImageRemoveEffect(image_id, ~batch.args.no_prune)
               /\ IF image_id \in DOMAIN images
                  THEN Continue("Ok")
                  ELSE Leave("ImageNotFound", "err")
    /\ UNCHANGED <<pull, runtime_vars, fsm_vars, ref_vars, manifest_vars, shell_vars,
                   rest_batch_vars>>

(***************************************************************************)
(* The environment of the payload (runtime/container.rs run, exec and      *)
(* start_detached; darwin/spawn.rs spawn_container and spawn_detached).    *)
(* An environment is a map from keys to values.                            *)
(***************************************************************************)
EnvHome == <<"HOME">>
EnvPath == <<"PATH">>
EnvTerm == <<"TERM">>
EnvHostname == <<"HOSTNAME">>
RootHome == <<"/", "root">>
DefaultPath == <<"/usr/local/bin:/usr/bin:/bin:/usr/sbin:/sbin">>
Xterm == <<"xterm">>
\* config.hostname of the container of the model
Hostname == <<"box">>
\* std::env::var(key) of the tool: the value, if the tool's environment has one
env_var(tool_env, key) == IF key \in DOMAIN tool_env THEN Some(tool_env[key]) ELSE None

\* container.rs lines 58-63 and 221-226: the four defaults, as pairs
default_env(tool_env) ==
    << <<EnvHome, RootHome>>,
       <<EnvPath, DefaultPath>>,
       <<EnvTerm, unwrap_or(env_var(tool_env, EnvTerm), Xterm)>>,
       <<EnvHostname, Hostname>> >>
\* container.rs lines 119-123: the three defaults of a detached start, as texts
default_env_args ==
    << EnvHome \o <<"=">> \o RootHome,
       EnvPath \o <<"=">> \o DefaultPath,
       EnvHostname \o <<"=">> \o Hostname >>
\* container.rs lines 66-70: the pairs of the entries that have a '='
RECURSIVE env_pairs(_, _, _)
env_pairs(env, i, acc) ==
    IF i > Len(env) THEN acc
    ELSE LET kv == split_once(env[i], "=")
         IN env_pairs(env, i + 1, IF IsSome(kv) THEN Append(acc, Unwrap(kv)) ELSE acc)

\* Command::env for each pair in turn, on the environment the command has
RECURSIVE set_env(_, _, _)
set_env(process_env, pairs, i) ==
    IF i > Len(pairs) THEN process_env
    ELSE set_env(Insert(process_env, pairs[i][1], pairs[i][2]), pairs, i + 1)

\* /bin/sh runs the export statements in turn: the word after `export`, its
\* quotes removed, is an assignment key=value
RECURSIVE sh_exports(_, _, _)
sh_exports(process_env, statements, i) ==
    IF i > Len(statements) THEN process_env
    ELSE LET words == sh_words(statements[i])
             kv == split_once(words[2].word, "=")
         IN sh_exports(Insert(process_env, Unwrap(kv)[1], Unwrap(kv)[2]), statements, i + 1)

\* spawn.rs lines 80-83: spawn_container clears the environment of the command
\* and sets the pairs it was given
spawn_container_env(pairs) == set_env(EmptyMap, pairs, 1)
\* spawn.rs lines 246-281: spawn_detached runs /bin/sh without clearing its
\* environment, so the shell starts with the tool's; the payload gets the
\* shell's environment after the exports
spawn_detached_env(tool_env, env) == sh_exports(tool_env, env_exports(env), 1)

\* the environment the payload starts with, on each path
run_env(tool_env, config_env) ==
    spawn_container_env(default_env(tool_env) \o env_pairs(config_env, 1, << >>))
exec_env(tool_env, config_env, env) ==
    spawn_container_env(default_env(tool_env) \o env_pairs(config_env, 1, << >>)
                            \o env_pairs(env, 1, << >>))
start_detached_env(tool_env, config_env) ==
    spawn_detached_env(tool_env, default_env_args \o config_env)
payload_env(path, tool_env, config_env, env) ==
    CASE path = "run" -> run_env(tool_env, config_env)
      [] path = "exec" -> exec_env(tool_env, config_env, env)
      [] path = "start_detached" -> start_detached_env(tool_env, config_env)

\* the environments of the tool: empty, with TERM, with other variables
ToolEnvs ==
    { EmptyMap,
      [key \in {EnvTerm} |-> <<"vt100">>],
      [key \in {<<"TOKEN">>} |-> <<"s3cret">>],
      [key \in {EnvTerm, <<"TOKEN">>} |-> IF key = EnvTerm THEN <<"vt100">> ELSE <<"s3cret">>],
      [key \in {EnvHome, EnvPath} |-> IF key = EnvHome THEN <<"/", "Users">> ELSE <<"/opt">>] }
\* env entries: two values of one key, a default overridden, an entry without '='
EnvEntries ==
    { <<"A", "=", "1">>, <<"A", "=", "2">>, <<"PATH", "=", "/x">>, <<"NOEQ">>,
      <<"Q", "=", "it", "'", "s">> }
EnvLists == UNION {[1..n -> EnvEntries] : n \in 0..MaxEnv}
\* nothing was launched
NoLaunch ==
    [path |-> "none", tool_env |-> EmptyMap, config_env |-> << >>, env |-> << >>,
     payload_env |-> EmptyMap]

\* Container::run (container.rs 57-100) launches the payload
LaunchRun(tool_env, config_env) ==
    /\ launch' = [path |-> "run", tool_env |-> tool_env, config_env |-> config_env,
                  env |-> << >>, payload_env |-> run_env(tool_env, config_env)]
    /\ UNCHANGED <<runtime_vars, beside_launch_vars>>
\* Container::exec (container.rs 220-259) launches a process with the env of the invocation
LaunchExec(tool_env, config_env, env) ==
    /\ launch' = [path |-> "exec", tool_env |-> tool_env, config_env |-> config_env,
                  env |-> env, payload_env |-> exec_env(tool_env, config_env, env)]
    /\ UNCHANGED <<runtime_vars, beside_launch_vars>>
\* Container::start_detached (container.rs 118-154) launches the payload
LaunchDetached(tool_env, config_env) ==
    /\ launch' = [path |-> "start_detached", tool_env |-> tool_env,
                  config_env |-> config_env, env |-> << >>,
                  payload_env |-> start_detached_env(tool_env, config_env)]
    /\ UNCHANGED <<runtime_vars, beside_launch_vars>>

(***************************************************************************)
(* The output of a foreground launch that is neither tty nor interactive   *)
(* (darwin/spawn.rs spawn_container lines 135-186).  The payload writes    *)
(* lines into two pipes; the two tasks of tokio::spawn, if there are any,  *)
(* read them; the caller waits for the child only.                         *)
(***************************************************************************)
\* the lines a payload can write
Lines == {<<"one">>, <<"two">>}
\* no launch
NoTee ==
    [log_given |-> FALSE, child |-> "none", caller |-> "none",
     written |-> [stdout |-> << >>, stderr |-> << >>],
     pipe |-> [stdout |-> << >>, stderr |-> << >>],
     printed |-> [stdout |-> << >>, stderr |-> << >>],
     log_file |-> << >>]

\* lines 136-142: the child is spawned with stdin null and both outputs
\* piped; lines 145-179: with a log path, and only then, the two reading
\* tasks are spawned
TeeSpawn(log_given) ==
    /\ tee = NoTee
    /\ tee' = [NoTee EXCEPT !.log_given = log_given, !.child = "running",
                            !.caller = "waiting"]
    /\ UNCHANGED <<runtime_vars, beside_tee_vars>>

\* the payload writes a line to one of its streams
PayloadWrite(stream, line) ==
    /\ tee.child = "running"
    /\ Len(tee.written[stream]) < MaxLines
    /\ tee' = [tee EXCEPT !.written[stream] = Append(@, line),
                          !.pipe[stream] = Append(@, line)]
    /\ UNCHANGED <<runtime_vars, beside_tee_vars>>

\* the payload exits
PayloadEnd ==
    /\ tee.child = "running"
    /\ tee' = [tee EXCEPT !.child = "exited"]
    /\ UNCHANGED <<runtime_vars, beside_tee_vars>>

\* lines 152-166: the stdout task reads the next line, prints it and appends
\* it with "\n" to the log file; the task lives as long as the process
TeeStdout ==
    /\ tee.log_given
    /\ tee.caller \in {"waiting", "returned"}
    /\ tee.pipe.stdout /= << >>
    /\ tee' = [tee EXCEPT !.pipe.stdout = Tail(@),
                          !.printed.stdout = Append(@, Head(tee.pipe.stdout)),
                          !.log_file = Append(@, Head(tee.pipe.stdout) \o <<"\n">>)]
    /\ UNCHANGED <<runtime_vars, beside_tee_vars>>

\* lines 170-177: the stderr task reads the next line and prints it
TeeStderr ==
    /\ tee.log_given
    /\ tee.caller \in {"waiting", "returned"}
    /\ tee.pipe.stderr /= << >>
    /\ tee' = [tee EXCEPT !.pipe.stderr = Tail(@),
                          !.printed.stderr = Append(@, Head(tee.pipe.stderr))]
    /\ UNCHANGED <<runtime_vars, beside_tee_vars>>

\* lines 181-186: child.wait() returns once the child has exited, and
\* spawn_container returns its code; no task is awaited
WaitReturn ==
    /\ tee.caller = "waiting"
    /\ tee.child = "exited"
    /\ tee' = [tee EXCEPT !.caller = "returned"]
    /\ UNCHANGED <<runtime_vars, beside_tee_vars>>

\* run.rs lines 181-190: the verb ends the process with process::exit, and
\* the tasks with it
TeeExit ==
    /\ tee.caller = "returned"
    /\ tee' = [tee EXCEPT !.caller = "exited"]
    /\ UNCHANGED <<runtime_vars, beside_tee_vars>>

(***************************************************************************)
(* The files of RootFs::setup (filesystem/rootfs.rs).  A path is the       *)
(* sequence of its components from the root of the host; a file system is  *)
(* a node for each path that exists, and a symlink holds the path it       *)
(* points to.                                                              *)
(***************************************************************************)
Dir == [kind |-> "dir", content |-> << >>, target |-> << >>]
File(content) == [kind |-> "file", content |-> content, target |-> << >>]
Symlink(target) == [kind |-> "symlink", content |-> << >>, target |-> target]
\* paths.container_rootfs(id), the directory of the container taken as one component
RootfsPath == <<"rootfs">>
\* path p lies in root or is root
Within(root, p) == Len(p) >= Len(root) /\ SubSeq(p, 1, Len(root)) = root
\* Path::parent
Parent(p) == SubSeq(p, 1, Len(p) - 1)
\* the tool may write at the place q: its own root filesystem always, the
\* host beside it if the host lets it
Writable(fs, q) == Within(RootfsPath, q) \/ fs.host_writable

\* where the kernel finds path p: the symlinks among its components are
\* followed (that of the last component only if follow_last), every
\* component before the last is a directory; None when there is no such place
RECURSIVE locate(_, _, _, _, _, _)
locate(fs, p, i, cur, follow_last, hops) ==
    IF i > Len(p) THEN Some(cur)
    ELSE LET q == Append(cur, p[i])
         IN IF /\ q \in DOMAIN fs.nodes
               /\ fs.nodes[q].kind = "symlink"
               /\ (i < Len(p) \/ follow_last)
            THEN IF hops = 0 THEN None
                 ELSE locate(fs, fs.nodes[q].target \o SubSeq(p, i + 1, Len(p)), 1, << >>,
                             follow_last, hops - 1)
            ELSE IF i = Len(p) THEN Some(q)
            ELSE IF q \in DOMAIN fs.nodes /\ fs.nodes[q].kind = "dir"
                 THEN locate(fs, p, i + 1, q, follow_last, hops)
                 ELSE None
\* fs::metadata and fs::symlink_metadata: the node, if there is one
stat(fs, p) ==
    LET q == locate(fs, p, 1, << >>, TRUE, MaxHops)
    IN IF IsSome(q) /\ Unwrap(q) \in DOMAIN fs.nodes THEN Some(fs.nodes[Unwrap(q)]) ELSE None
lstat(fs, p) ==
    LET q == locate(fs, p, 1, << >>, FALSE, MaxHops)
    IN IF IsSome(q) /\ Unwrap(q) \in DOMAIN fs.nodes THEN Some(fs.nodes[Unwrap(q)]) ELSE None
\* Path::exists, Path::is_dir, Path::is_symlink
path_exists(fs, p) == IsSome(stat(fs, p))
is_dir(fs, p) == IsSome(stat(fs, p)) /\ Unwrap(stat(fs, p)).kind = "dir"
is_symlink(fs, p) == IsSome(lstat(fs, p)) /\ Unwrap(lstat(fs, p)).kind = "symlink"

\* the result of an operation on the files: whether it succeeded, and the files after it
Done(ok, fs) == [ok |-> ok, fs |-> fs]
\* the node is put at the place q
Put(fs, q, node) == [fs EXCEPT !.nodes = Insert(fs.nodes, q, node)]
\* mkdir(p): the parent is a directory, nothing is at p
mkdir(fs, p) ==
    LET q == locate(fs, p, 1, << >>, FALSE, MaxHops)
    IN IF IsSome(q) /\ Unwrap(q) \notin DOMAIN fs.nodes /\ Writable(fs, Unwrap(q))
       THEN Done(TRUE, Put(fs, Unwrap(q), Dir))
       ELSE Done(FALSE, fs)
\* fs::create_dir_all(p): every prefix of p that is no directory yet is made one
RECURSIVE create_dir_from(_, _, _)
create_dir_from(fs, p, i) ==
    IF i > Len(p) THEN Done(TRUE, fs)
    ELSE IF is_dir(fs, SubSeq(p, 1, i)) THEN create_dir_from(fs, p, i + 1)
    ELSE LET made == mkdir(fs, SubSeq(p, 1, i))
         IN IF made.ok THEN create_dir_from(made.fs, p, i + 1) ELSE Done(FALSE, fs)
create_dir_all(fs, p) == create_dir_from(fs, p, 1)
\* fs::copy and fs::write to dst: the file that dst leads to, through a
\* symlink if it is one, is created or overwritten
write_file(fs, dst, content) ==
    LET q == locate(fs, dst, 1, << >>, TRUE, MaxHops)
    IN IF /\ IsSome(q)
          /\ Unwrap(q) \notin DOMAIN fs.nodes \/ fs.nodes[Unwrap(q)].kind = "file"
          /\ Writable(fs, Unwrap(q))
       THEN Done(TRUE, Put(fs, Unwrap(q), File(content)))
       ELSE Done(FALSE, fs)
\* std::os::unix::fs::symlink(target, link): nothing is at link
symlink(fs, target, link) ==
    LET q == locate(fs, link, 1, << >>, FALSE, MaxHops)
    IN IF IsSome(q) /\ Unwrap(q) \notin DOMAIN fs.nodes /\ Writable(fs, Unwrap(q))
       THEN Done(TRUE, Put(fs, Unwrap(q), Symlink(target)))
       ELSE Done(FALSE, fs)

\* lines 54-67: the standard directories
StandardDirs ==
    << <<"etc">>, <<"tmp">>, <<"var">>, <<"var", "log">>, <<"var", "run">>, <<"var", "tmp">>,
       <<"home">>, <<"root">>, <<"proc">>, <<"dev">>, <<"opt">>, <<"usr", "local", "bin">> >>
\* lines 75-79: the device nodes, regular files
DeviceFiles == <<"null", "zero", "random", "urandom">>
\* lines 87-97: the host-bridge symlinks, container path and host path
SystemSymlinks ==
    << <<"bin">>, <<"sbin">>, <<"usr", "bin">>, <<"usr", "sbin">>, <<"usr", "lib">>,
       <<"usr", "libexec">>, <<"usr", "share">>, <<"System">>, <<"Library", "Frameworks">> >>

\* lines 52-82: create_standard_dirs, stopping at the first error
RECURSIVE create_standard_dirs_from(_, _)
create_standard_dirs_from(fs, i) ==
    IF i > Len(StandardDirs) THEN Done(TRUE, fs)
    ELSE LET made == create_dir_all(fs, RootfsPath \o StandardDirs[i])
         IN IF made.ok THEN create_standard_dirs_from(made.fs, i + 1) ELSE made
RECURSIVE write_device_files(_, _)
write_device_files(fs, i) ==
    IF i > Len(DeviceFiles) THEN Done(TRUE, fs)
    ELSE LET written == write_file(fs, RootfsPath \o <<"dev", DeviceFiles[i]>>, << >>)
         IN IF written.ok THEN write_device_files(written.fs, i + 1) ELSE written
create_standard_dirs(fs) ==
    LET made == create_standard_dirs_from(fs, 1)
    IN IF made.ok THEN write_device_files(made.fs, 1) ELSE made

\* lines 85-127: setup_system_symlinks; an error of symlink is ignored
RECURSIVE setup_system_symlinks_from(_, _)
setup_system_symlinks_from(fs, i) ==
    IF i > Len(SystemSymlinks) THEN Done(TRUE, fs)
    ELSE LET host_path == SystemSymlinks[i]
             full_container_path == RootfsPath \o SystemSymlinks[i]
             made == create_dir_all(fs, Parent(full_container_path))
         IN IF ~made.ok THEN made
            ELSE IF \/ path_exists(made.fs, full_container_path)
                    \/ is_symlink(made.fs, full_container_path)
                 THEN setup_system_symlinks_from(made.fs, i + 1)
            ELSE IF path_exists(made.fs, host_path)
                 THEN setup_system_symlinks_from(
                          symlink(made.fs, host_path, full_container_path).fs, i + 1)
            ELSE setup_system_symlinks_from(made.fs, i + 1)
setup_system_symlinks(fs) == setup_system_symlinks_from(fs, 1)

\* An extracted layer is a node for each path below its directory.
\* read_dir(src): the entries of the directory rel of the layer
entries(layer, rel) ==
    {e \in DOMAIN layer : Len(e) = Len(rel) + 1 /\ SubSeq(e, 1, Len(rel)) = rel}
\* lines 258-300: copy_dir_contents(layer/rel, rootfs/rel), entry by entry;
\* every error is ignored
RECURSIVE copy_entries(_, _, _)
RECURSIVE copy_entry(_, _, _)
copy_entries(fs, layer, todo) ==
    IF todo = {} THEN fs
    ELSE LET e == CHOOSE x \in todo : TRUE
         IN copy_entries(copy_entry(fs, layer, e), layer, todo \ {e})
copy_entry(fs, layer, e) ==
    LET dst_path == RootfsPath \o e
    IN CASE layer[e].kind = "dir" ->
              copy_entries(create_dir_all(fs, dst_path).fs, layer, entries(layer, e))
         [] layer[e].kind = "file" ->
              IF is_symlink(fs, dst_path) THEN fs
              ELSE write_file(create_dir_all(fs, Parent(dst_path)).fs, dst_path,
                              layer[e].content).fs
         [] layer[e].kind = "symlink" ->
              IF ~path_exists(fs, dst_path) /\ ~is_symlink(fs, dst_path)
              THEN symlink(fs, layer[e].target, dst_path).fs
              ELSE fs
copy_dir_contents(fs, layer) == copy_entries(fs, layer, entries(layer, << >>))
\* lines 130-218: apply_layers, the layers of the metadata in their order
RECURSIVE apply_layers(_, _, _)
apply_layers(fs, layers, i) ==
    IF i > Len(layers) THEN fs
    ELSE apply_layers(copy_dir_contents(fs, layers[i]), layers, i + 1)

\* str::split(c)
RECURSIVE split(_, _)
split(str, c) ==
    IF Contains(str, c)
    THEN <<Before(str, FirstIndex(str, c))>> \o split(After(str, FirstIndex(str, c)), c)
    ELSE <<str>>
\* str::trim_start_matches(c)
RECURSIVE trim_start_matches(_, _)
trim_start_matches(str, c) ==
    IF str /= << >> /\ Head(str) = c THEN trim_start_matches(Tail(str), c) ELSE str
\* the components of a path text; each is one run of letters
components(text) ==
    LET parts == split(text, "/")
        named == SelectSeq(parts, LAMBDA part : part /= << >>)
    IN [i \in 1..Len(named) |-> named[i][1]]
\* lines 221-245: setup_volume
setup_volume(fs, volume_spec) ==
    LET parts == split(volume_spec, ":")
        host_path == components(parts[1])
        container_path == trim_start_matches(parts[2], "/")
        full_container_path == RootfsPath \o components(container_path)
        made == create_dir_all(fs, Parent(full_container_path))
    IN IF Len(parts) < 2 THEN [result |-> "InvalidInput", fs |-> fs]
       ELSE IF ~made.ok THEN [result |-> "Io", fs |-> made.fs]
       ELSE IF path_exists(made.fs, full_container_path) THEN [result |-> "Ok", fs |-> made.fs]
       ELSE LET linked == symlink(made.fs, host_path, full_container_path)
            IN [result |-> IF linked.ok THEN "Ok" ELSE "Io", fs |-> linked.fs]
RECURSIVE setup_volumes(_, _, _)
setup_volumes(fs, volumes, i) ==
    IF i > Len(volumes) THEN [result |-> "Ok", fs |-> fs]
    ELSE LET one == setup_volume(fs, volumes[i])
         IN IF one.result = "Ok" THEN setup_volumes(one.fs, volumes, i + 1) ELSE one

\* lines 31-50: RootFs::setup
rootfs_setup(fs, layers, volumes) ==
    LET made == create_dir_all(fs, RootfsPath)
        standard == create_standard_dirs(made.fs)
        linked == setup_system_symlinks(standard.fs)
    IN IF ~made.ok THEN [result |-> "Io", fs |-> made.fs]
       ELSE IF ~standard.ok THEN [result |-> "Io", fs |-> standard.fs]
       ELSE IF ~linked.ok THEN [result |-> "Io", fs |-> linked.fs]
       ELSE setup_volumes(apply_layers(linked.fs, layers, 1), volumes, 1)

\* the host before the tool runs: its system directories, a shell in /bin,
\* a directory to share
HostNodes ==
    [p \in { <<"bin">>, <<"sbin">>, <<"usr">>, <<"usr", "bin">>, <<"usr", "sbin">>,
             <<"usr", "lib">>, <<"usr", "libexec">>, <<"usr", "share">>, <<"System">>,
             <<"Library">>, <<"Library", "Frameworks">>, <<"hostdata">>,
             <<"bin", "sh">> } |->
        IF p = <<"bin", "sh">> THEN File(<<"host">>) ELSE Dir]
\* extracted layers: a file, the same file with other content, a directory at
\* its path, a symlink at its path, a directory and a shell at a host-bridge
\* path, a file at a host-bridge path, a file in a standard directory
LayerTrees ==
    { [p \in {<<"app">>} |-> File(<<"1">>)],
      [p \in {<<"app">>} |-> File(<<"2">>)],
      [p \in {<<"app">>, <<"app", "x">>} |-> IF p = <<"app">> THEN Dir ELSE File(<<"3">>)],
      [p \in {<<"app">>} |-> Symlink(<<"hostdata">>)],
      [p \in {<<"bin">>, <<"bin", "sh">>} |-> IF p = <<"bin">> THEN Dir ELSE File(<<"4">>)],
      [p \in {<<"sbin">>} |-> File(<<"5">>)],
      [p \in {<<"etc">>, <<"etc", "conf">>} |-> IF p = <<"etc">> THEN Dir ELSE File(<<"6">>)] }
LayerLists == UNION {[1..n -> LayerTrees] : n \in 0..MaxLayers}
\* volume specs: onto a free path, read-only, onto the path of a layer's
\* entry, onto a host-bridge path, below a new directory, without a ':'
VolumeSpecs ==
    { <<"/", "hostdata", ":", "/", "data">>,
      <<"/", "hostdata", ":", "/", "data", ":", "ro">>,
      <<"/", "hostdata", ":", "/", "app">>,
      <<"/", "hostdata", ":", "/", "bin">>,
      <<"/", "hostdata", ":", "/", "mnt", "/", "data">>,
      <<"/", "hostdata">> }
VolumeLists == UNION {[1..n -> VolumeSpecs] : n \in 0..MaxVolumes}
\* no root filesystem was set up
NoSetup == [result |-> "none", layers |-> << >>, volumes |-> << >>]

\* run.rs lines 172-173: RootFs::setup of a new container
SetupRootFs(layers, volumes) ==
    /\ setup = NoSetup
    /\ LET done == rootfs_setup(disk, layers, volumes)
       IN /\ disk' = done.fs
          /\ setup' = [result |-> done.result, layers |-> layers, volumes |-> volumes]
    /\ UNCHANGED <<runtime_vars, beside_rootfs_vars>>

(***************************************************************************)
(* ImageBuilder::build (image/build.rs): the loop over the instructions    *)
(* that parse_dockerfile returned, and the store of the image.             *)
(***************************************************************************)
\* an instruction; COPY and ADD are only parsed with a source and a destination
Instr(kind, arg) == [kind |-> kind, arg |-> arg]
Scratch == <<"scratch">>
\* the instructions a Dockerfile begins with, and those that follow
FromInstructions == {Instr("FROM", Scratch), Instr("FROM", Alpine)}
StepInstructions ==
    {Instr("RUN", <<"make">>), Instr("COPY", <<"src">>), Instr("ADD", <<"src">>),
     Instr("ENV", <<"A", "=", "1">>), Instr("CMD", <<"sh">>)}
Dockerfiles ==
    UNION {{<<from>> \o rest : from \in FromInstructions, rest \in [1..n -> StepInstructions]} :
              n \in 0..MaxSteps}
\* Sha256::digest of a value, as a text of one token
Sha256(value) == <<ToString(value)>>
\* the digest of the tar of the tmp directory staged for instruction i
StagedLayer(i) == Sha256(<<"layer", i>>)
\* no build
NoBuild ==
    [pc |-> "none", instructions |-> << >>, idx |-> 1, base |-> << >>, layers |-> << >>,
     cmd |-> None, tag |-> None, image_id |-> None, result |-> "none"]

\* lines 28-54: the Dockerfile is parsed, the layer list is empty
BuildBegin(instructions, tag) ==
    /\ build = NoBuild
    /\ pull.pc = "idle"
    /\ build' = [NoBuild EXCEPT !.pc = "steps", !.instructions = instructions, !.tag = tag]
    /\ UNCHANGED <<runtime_vars, image_vars, beside_build_vars>>

\* lines 57-88: FROM takes the layers of the base image, of the store or
\* pulled; scratch is no image and leaves the list as it is
BuildFrom ==
    /\ build.pc = "steps"
    /\ build.idx <= Len(build.instructions)
    /\ build.instructions[build.idx].kind = "FROM"
    /\ LET image == build.instructions[build.idx].arg
           found == find_image(parse(image))
       IN IF IsSome(found)
          THEN /\ build' = [build EXCEPT !.layers = images[Unwrap(found)].layers,
                                         !.base = images[Unwrap(found)].layers,
                                         !.idx = @ + 1]
               /\ UNCHANGED image_vars
          ELSE IF image = Scratch
          THEN /\ build' = [build EXCEPT !.base = build.layers, !.idx = @ + 1]
               /\ UNCHANGED image_vars
          ELSE \* registry.pull, as one step: it fails, or it has stored the image
               \/ /\ build' = [build EXCEPT !.pc = "failed", !.result = "Registry"]
                  /\ UNCHANGED image_vars
               \/ /\ StoreEffect(ImageId1, Some(repository_with_registry(parse(image))),
                                 Some(parse(image).tag), LayersOf(ImageId1))
                  /\ layer_dirs' = [d \in DOMAIN layer_dirs
                                           \cup {LayersOf(ImageId1)[i] :
                                                    i \in 1..Len(LayersOf(ImageId1))} |->
                                       {LayerTar}]
                  /\ stored' = Insert(StillStored(ImageId1, tag_key(parse(image))),
                                      ImageId1, parse(image))
                  /\ image_call' = [op |-> "pull", id |-> ImageId1,
                                    reference |-> Some(parse(image)), prune |-> FALSE,
                                    result |-> "Ok"]
                  /\ build' = [build EXCEPT !.layers = LayersOf(ImageId1),
                                            !.base = LayersOf(ImageId1),
                                            !.idx = @ + 1]
                  /\ UNCHANGED pull
    /\ UNCHANGED <<runtime_vars, fsm_vars, ref_vars, manifest_vars, shell_vars,
                   rest_build_vars>>

\* lines 96-125: COPY stages a tmp directory, makes a layer of it in the
\* layer store (layer.rs 140-164) and pushes its digest; an error of the
\* file system ends the build
BuildCopy ==
    /\ build.pc = "steps"
    /\ build.idx <= Len(build.instructions)
    /\ build.instructions[build.idx].kind = "COPY"
    /\ \/ /\ build' = [build EXCEPT !.pc = "failed", !.result = "Io"]
          /\ UNCHANGED layer_dirs
       \/ LET digest == Sha256Prefix \o StagedLayer(build.idx)
              digest_short == unwrap_or(strip_prefix(digest, Sha256Prefix), digest)
          IN /\ layer_dirs' = Insert(layer_dirs, digest_short, {LayerTar})
             /\ build' = [build EXCEPT !.layers = Append(@, digest_short), !.idx = @ + 1]
    /\ UNCHANGED <<images, image_index, image_call, pull, stored, runtime_vars, fsm_vars,
                   ref_vars, manifest_vars, shell_vars, rest_build_vars>>

\* lines 89-95 and 126-181: ADD and RUN do nothing; of the others CMD sets
\* the command, and none touches the layer list
BuildOther ==
    /\ build.pc = "steps"
    /\ build.idx <= Len(build.instructions)
    /\ build.instructions[build.idx].kind \notin {"FROM", "COPY"}
    /\ build' = [build EXCEPT !.idx = @ + 1,
                              !.cmd = IF build.instructions[build.idx].kind = "CMD"
                                      THEN Some(build.instructions[build.idx].arg) ELSE @]
    /\ UNCHANGED <<runtime_vars, image_vars, beside_build_vars>>

\* lines 184-228: the image id is the digest of the layers and the command;
\* the image is stored with the layer list
BuildStore ==
    /\ build.pc = "steps"
    /\ build.idx > Len(build.instructions)
    /\ LET image_id == Sha256(<<build.layers, build.cmd>>)
           reference == IF IsSome(build.tag) THEN Some(parse(Unwrap(build.tag))) ELSE None
       IN /\ StoreEffect(image_id,
                         IF IsSome(reference)
                         THEN Some(repository_with_registry(Unwrap(reference))) ELSE None,
                         IF IsSome(reference) THEN Some(Unwrap(reference).tag) ELSE None,
                         build.layers)
          /\ stored' = IF IsSome(reference)
                       THEN Insert(StillStored(image_id, tag_key(Unwrap(reference))),
                                   image_id, Unwrap(reference))
                       ELSE stored
          /\ image_call' = [op |-> "store", id |-> image_id, reference |-> reference,
                            prune |-> FALSE, result |-> "Ok"]
          /\ build' = [build EXCEPT !.pc = "done", !.image_id = Some(image_id),
                                    !.result = "Ok"]
    /\ UNCHANGED <<layer_dirs, pull, runtime_vars, fsm_vars, ref_vars, manifest_vars,
                   shell_vars, rest_build_vars>>

(***************************************************************************)
(* Specifications.                                                         *)
(***************************************************************************)
\* an empty store, no payload, no invocation
InitStore ==
    /\ now = 1
    /\ alive = {}
    /\ next_pid = 1
    /\ dirs = {}
    /\ config = EmptyMap
    /\ cstate = EmptyMap
    /\ aux_files = EmptyMap
    /\ pid_file = EmptyMap
    /\ names = EmptyMap
    /\ short_ids = EmptyMap
    /\ pc = "idle"
    /\ op = "none"
    /\ cid = Id1
    /\ arg_name = NoName
    /\ arg_timeout = None
    /\ lstate = DefaultState
    /\ entry = None
    /\ child = None
    /\ trace = << >>
    /\ result = "pending"
    /\ retcode = None
    /\ hist = EmptyMap
    /\ verb = NoVerb

\* a reference text, not parsed yet
InitRef(texts) ==
    /\ ref_text \in texts
    /\ ref_parsed = None
    /\ ref_reparsed = None

\* a manifest list, nothing chosen yet
InitManifest(archs, lists) ==
    /\ host \in archs
    /\ index_manifests \in lists
    /\ selected = None

\* the fields of a detached launch, its text not built yet
InitShell(fields) ==
    /\ sh_fields \in fields
    /\ sh_text = None

\* a plain detached launch
PlainFields ==
    [work_dir |-> <<"a">>, env |-> << >>, actual_cmd |-> <<"a">>, args |-> << >>,
     log_path |-> <<"a">>]

\* no image, no layer, no call of the image store, no pull
InitImages ==
    /\ images = EmptyMap
    /\ image_index = EmptyImageIndex
    /\ layer_dirs = EmptyMap
    /\ image_call = NoImageCall
    /\ pull = NoPull
    /\ stored = EmptyMap

\* no call by another process
InitPeer == peer = NoPeer

\* no batch verb was invoked
InitBatch == batch = NoBatch

\* no payload was launched
InitLaunch == launch = NoLaunch

\* no foreground launch with piped output
InitTee == tee = NoTee

\* the host as the tool finds it, no root filesystem set up
InitDisk ==
    /\ disk = [nodes |-> HostNodes, host_writable |-> FALSE]
    /\ setup = NoSetup

\* no build
InitBuild == build = NoBuild

\* the subsystems of the later sections at rest
InitMore ==
    /\ InitPeer
    /\ InitBatch
    /\ InitLaunch
    /\ InitTee
    /\ InitDisk
    /\ InitBuild

\* the subsystems beside the transition table at rest
InitSide ==
    /\ InitRef({Alpine})
    /\ InitManifest({"aarch64"}, {<< >>})
    /\ InitShell({PlainFields})
    /\ InitImages
    /\ InitMore

InitFsm(froms) ==
    /\ fsm_from \in froms
    /\ fsm_status = fsm_from
    /\ fsm_event = [kind |-> "create"]
    /\ fsm_valid = FALSE
    /\ fsm_applied = None
    /\ fsm_steps = 0

Init == InitStore /\ InitFsm({"created"}) /\ InitSide

\* the steps of the invocation in flight
Steps ==
    \/ RunBegin
    \/ RunSpawn
    \/ \E c \in ExitCodes : RunFinish(c)
    \/ StartSpawn
    \/ StartPersist
    \/ StopBegin
    \/ StopSleep
    \/ StopProbe
    \/ StopSave
    \/ ExecBegin
    \/ \E c \in ExitCodes : ExecFinish(c)

Environment ==
    \/ Tick
    \/ \E pid \in 1..MaxPid : PayloadExit(pid)

\* the invocations on the containers of the lifecycle specification
Next ==
    \/ \E id \in LifecycleIds, name \in Names : StoreCreate(id, name, FALSE)
    \/ \E id \in LifecycleIds : StoreRemove(id)
    \/ \E id \in LifecycleIds, name \in Names, detach \in BOOLEAN : RunVerb(id, name, detach, FALSE)
    \/ VerbExit
    \/ \E id \in LifecycleIds : CallRun(id)
    \/ \E id \in LifecycleIds : CallStartDetached(id)
    \/ \E id \in LifecycleIds, t \in Timeouts : CallStop(id, t)
    \/ \E id \in LifecycleIds : CallExec(id)
    \/ Steps
    \/ Environment

\* the container runtime: every operation, on one container at a time
Spec == Init /\ [][Next]_vars

\* the container store: containers created, run and removed side by side
NextStore ==
    \/ \E id \in Ids, name \in Names : StoreCreate(id, name, FALSE)
    \/ \E id \in Ids : StoreRemove(id)
    \/ \E id \in Ids, name \in Names, detach \in BOOLEAN : RunVerb(id, name, detach, FALSE)
    \/ VerbExit
    \/ RunBegin
    \/ RunSpawn
    \/ \E c \in ExitCodes : RunFinish(c)
    \/ StartSpawn
    \/ StartPersist
    \/ Environment
SpecStore == Init /\ [][NextStore]_vars

\* the run and start verbs on one container, with and without --rm
NextVerbs ==
    \/ \E id \in LifecycleIds, name \in Names, detach \in BOOLEAN, rm \in BOOLEAN :
          RunVerb(id, name, detach, rm)
    \/ \E container_ref \in Names \cup LifecycleIds, attach \in BOOLEAN :
          StartVerb(container_ref, attach)
    \/ VerbExit
    \/ \E id \in LifecycleIds, t \in Timeouts : CallStop(id, t)
    \/ \E id \in LifecycleIds : StoreRemove(id)
    \/ RunBegin
    \/ RunSpawn
    \/ \E c \in ExitCodes : RunFinish(c)
    \/ StartSpawn
    \/ StartPersist
    \/ StopBegin
    \/ StopSleep
    \/ StopProbe
    \/ StopSave
    \/ Environment
SpecVerbs == Init /\ [][NextVerbs]_vars

\* root filesystems set up and cleaned up beside the store's create and remove
NextRootFs ==
    \/ \E id \in Ids : RootFsSetup(id)
    \/ \E id \in Ids : RootFsCleanup(id)
    \/ \E id \in Ids, name \in Names : StoreCreate(id, name, FALSE)
    \/ \E id \in Ids : StoreRemove(id)
SpecRootFs == Init /\ [][NextRootFs]_vars

\* every reference text parsed, and its full_name parsed again
InitParse ==
    /\ InitStore
    /\ InitFsm({"created"})
    /\ InitRef(RefTexts)
    /\ InitManifest({"aarch64"}, {<< >>})
    /\ InitShell({PlainFields})
    /\ InitImages
    /\ InitMore
NextParse == ParseReference
SpecParse == InitParse /\ [][NextParse]_vars

\* every manifest list on every host
InitSelect ==
    /\ InitStore
    /\ InitFsm({"created"})
    /\ InitRef({Alpine})
    /\ InitManifest(HostArchs, ManifestLists)
    /\ InitShell({PlainFields})
    /\ InitImages
    /\ InitMore
NextSelect == SelectManifest
SpecSelect == InitSelect /\ [][NextSelect]_vars

\* every detached launch text
InitDetached ==
    /\ InitStore
    /\ InitFsm({"created"})
    /\ InitRef({Alpine})
    /\ InitManifest({"aarch64"}, {<< >>})
    /\ InitShell(ShFields)
    /\ InitImages
    /\ InitMore
NextDetached == BuildDetachedCommand
SpecDetached == InitDetached /\ [][NextDetached]_vars

\* the image store and the layer store under store, tag, remove and pull
NextImages ==
    \/ \E image_id \in ImageIds, reference \in {None} \cup {Some(r) : r \in ImageRefs} :
            ImageStore(image_id, reference)
    \/ \E image_id \in ImageIds, reference \in ImageRefs : ImageTag(image_id, reference)
    \/ \E image_id \in ImageIds, prune_layers \in BOOLEAN : ImageRemove(image_id, prune_layers)
    \/ \E reference \in ImageRefs : PullRefused(reference)
    \/ \E reference \in ImageRefs, manifest \in RegistryManifests :
            PullBegin(reference, manifest)
    \/ PullLayer
    \/ PullStore
SpecImages == Init /\ [][NextImages]_vars

\* the container runtime, and the stop of another process during a foreground run
NextPeer ==
    \/ Next
    \/ \E id \in LifecycleIds : PeerStop(id)
SpecPeer == Init /\ [][NextPeer]_vars

\* the store after `create` of Id1 as NameA and of Id2 as NameB, neither
\* started yet
InitBatchContainers ==
    /\ now = 1
    /\ alive = {}
    /\ next_pid = 1
    /\ dirs = Ids
    /\ config = [id \in Ids |-> [name |-> NameOf(id), auto_remove |-> FALSE]]
    /\ cstate = [id \in Ids |-> InitialState(1)]
    /\ aux_files = [id \in Ids |-> {}]
    /\ pid_file = EmptyMap
    /\ names = [name \in {NameOf(id) : id \in Ids} |->
                  CHOOSE id \in Ids : NameOf(id) = name]
    /\ short_ids = [short \in {ShortId(id) : id \in Ids} |->
                      CHOOSE id \in Ids : ShortId(id) = short]
    /\ pc = "idle"
    /\ op = "create"
    /\ cid = Id2
    /\ arg_name = NameOf(Id2)
    /\ arg_timeout = None
    /\ lstate = DefaultState
    /\ entry = None
    /\ child = None
    /\ trace = << >>
    /\ result = "Ok"
    /\ retcode = None
    /\ hist = [id \in Ids |-> << >>]
    /\ verb = NoVerb

\* the image store after ImageStore::store of ImageId2 and then of ImageId1,
\* both under alpine:latest: the tag names ImageId1
InitBatchImages ==
    /\ images = [image_id \in ImageIds |->
                   [tag |-> Some(parse(Alpine).tag),
                    repository |-> Some(parse(Alpine).repository),
                    layers |-> LayersOf(image_id)]]
    /\ image_index = [tags |-> [key \in {tag_key(parse(Alpine))} |-> ImageId1],
                      short_ids |-> [short \in {ShortId(image_id) : image_id \in ImageIds} |->
                                      CHOOSE image_id \in ImageIds : ShortId(image_id) = short]]
    /\ layer_dirs = EmptyMap
    /\ image_call = [op |-> "store", id |-> ImageId1, reference |-> Some(parse(Alpine)),
                     prune |-> FALSE, result |-> "Ok"]
    /\ pull = NoPull
    /\ stored = [image_id \in {ImageId1} |-> parse(Alpine)]

\* two containers and two images, made by the invocations before
InitBatchStore ==
    /\ InitBatchContainers
    /\ InitBatchImages
    /\ InitFsm({"created"})
    /\ InitRef({Alpine})
    /\ InitManifest({"aarch64"}, {<< >>})
    /\ InitShell({PlainFields})
    /\ InitMore

\* the batch verbs over the two containers and the two images, one invocation
\* at a time
NextBatch ==
    \/ \E args \in BatchArgs :
         \E items \in ItemLists(IF args.verb = "rmi" THEN ImageItems ELSE ContainerItems) :
            BatchBegin(args, items)
    \/ BatchRm
    \/ BatchStop
    \/ BatchStart
    \/ BatchRmi
    \/ BatchReturn
\* the invocations that make the store the batch verbs start from
NextBatchSetup ==
    \/ \E id \in Ids :
         /\ id \notin dirs
         /\ ~exists(NameOf(id))
         /\ StoreCreate(id, NameOf(id), FALSE)
    \/ \E image_id \in ImageIds :
         /\ image_id \notin DOMAIN images
         /\ ImageStore(image_id, Some(parse(Alpine)))
SpecBatchSetup == Init /\ [][NextBatchSetup]_vars
SpecBatch == InitBatchStore /\ [][NextBatch]_vars

\* one launch on each path, over the environments of the tool and the env lists
NextLaunch ==
    \/ /\ launch = NoLaunch
       /\ \E tool_env \in ToolEnvs, config_env \in EnvLists : LaunchRun(tool_env, config_env)
    \/ /\ launch = NoLaunch
       /\ \E tool_env \in ToolEnvs, config_env \in EnvLists, env \in EnvLists :
            LaunchExec(tool_env, config_env, env)
    \/ /\ launch = NoLaunch
       /\ \E tool_env \in ToolEnvs, config_env \in EnvLists :
            LaunchDetached(tool_env, config_env)
SpecLaunch == Init /\ [][NextLaunch]_vars

\* one foreground launch with piped output, with and without a log path
NextTee ==
    \/ \E log_given \in BOOLEAN : TeeSpawn(log_given)
    \/ \E stream \in {"stdout", "stderr"}, line \in Lines : PayloadWrite(stream, line)
    \/ PayloadEnd
    \/ TeeStdout
    \/ TeeStderr
    \/ WaitReturn
    \/ TeeExit
SpecTee == Init /\ [][NextTee]_vars

\* the root filesystem of a new container, over the layer lists and the volume
\* lists, on a host whose system directories the tool may or may not write
InitSetup ==
    /\ InitStore
    /\ InitFsm({"created"})
    /\ InitRef({Alpine})
    /\ InitManifest({"aarch64"}, {<< >>})
    /\ InitShell({PlainFields})
    /\ InitImages
    /\ InitPeer
    /\ InitBatch
    /\ InitLaunch
    /\ InitTee
    /\ disk \in {[nodes |-> HostNodes, host_writable |-> w] : w \in BOOLEAN}
    /\ setup = NoSetup
    /\ InitBuild
NextSetup == \E layers \in LayerLists, volumes \in VolumeLists : SetupRootFs(layers, volumes)
SpecSetup == InitSetup /\ [][NextSetup]_vars

\* one build of each Dockerfile, with and without a tag
NextBuild ==
    \/ \E instructions \in Dockerfiles, tag \in {None, Some(UserApp)} :
         BuildBegin(instructions, tag)
    \/ BuildFrom
    \/ BuildCopy
    \/ BuildOther
    \/ BuildStore
SpecBuild == Init /\ [][NextBuild]_vars

\* the transition table, walked from every status
InitTransition == InitStore /\ InitFsm(Statuses) /\ InitSide
NextTransition == \E event \in Events : FsmStep(event)
SpecTransition == InitTransition /\ [][NextTransition]_vars


(***************************************************************************)
(* The claims.                                                             *)
(***************************************************************************)
\* the transition table of the lifecycle: <<from, event, to>>
TransitionTable ==
    { <<"created", "start", "running">>,
      <<"created", "remove", "dead">>,
      <<"running", "pause", "paused">>,
      <<"running", "stop", "stopped">>,
      <<"running", "kill", "stopped">>,
      <<"running", "die", "stopped">>,
      <<"paused", "unpause", "running">>,
      <<"paused", "stop", "stopped">>,
      <<"paused", "kill", "stopped">>,
      <<"stopped", "start", "running">>,
      <<"stopped", "remove", "dead">> }

TableRows(from, kind) == {t \in TransitionTable : t[1] = from /\ t[2] = kind}

\* C1: is_valid_transition is true for exactly the eleven pairs of the
\* transition table, apply returns the table's target for them and None for
\* every other pair; nothing is accepted from dead, create from no status.
C1_TransitionTable ==
    fsm_steps > 0 =>
        LET rows == TableRows(fsm_from, fsm_event.kind)
        IN /\ Cardinality(TransitionTable) = 11
           /\ fsm_valid = (rows /= {})
           /\ fsm_applied = (IF rows = {} THEN None ELSE Some((CHOOSE t \in rows : TRUE)[3]))
           /\ (fsm_from = "dead" => ~fsm_valid /\ fsm_applied = None)
           /\ (fsm_event.kind = "create" => ~fsm_valid /\ fsm_applied = None)

\* a running container dies with an exit code and is stopped
C1_Witness ==
    /\ fsm_steps > 0
    /\ fsm_from = "running"
    /\ fsm_event = [kind |-> "die", exit_code |-> 1]
    /\ fsm_valid
    /\ fsm_applied = Some("stopped")

\* the event of the transition table that a lifecycle operation stands for
EventOf(o) ==
    CASE o \in StartOps -> [kind |-> "start"]
      [] o = "stop" -> [kind |-> "stop"]
      [] o = "remove" -> [kind |-> "remove"]

\* C2: a lifecycle operation (run, start_detached, stop, removal) invoked
\* while the container's status does not permit its event fails with
\* InvalidState and leaves the persisted state unchanged.
C2_ForbiddenTransitionRefused ==
    ( /\ pc = "idle"
      /\ op \in StartOps \cup {"stop", "remove"}
      /\ IsSome(entry)
      /\ ~is_valid_transition(from_state(Unwrap(entry)), EventOf(op)) )
    => /\ result = "InvalidState"
       /\ Persisted(cid) = entry

\* C3: from a freshly created container, after start; stop and after
\* start; stop; start; stop the status derived from the persisted state is
\* stopped, on the detached and on the foreground path.
C3_StartStopYieldsStopped ==
    ( /\ pc = "idle"
      /\ op = "stop"
      /\ result = "Ok"
      /\ cid \in DOMAIN hist
      /\ hist[cid] /= Deviated
      /\ Len(hist[cid]) \in {2, 4} )
    => from_state(cstate[cid]) = "stopped"

\* C4: in every persisted state, running = true implies that pid is set.
C4_RunningImpliesPid ==
    \A id \in DOMAIN cstate : cstate[id].running => IsSome(cstate[id].pid)

\* C5: in every persisted state, exit_code set implies running = false.
C5_ExitCodeImpliesNotRunning ==
    \A id \in DOMAIN cstate : IsSome(cstate[id].exit_code) => ~cstate[id].running

\* C6: after run has returned an exit code the persisted state has
\* running = false, exit_code = the returned code, no pid, finished_at set and
\* not earlier than started_at; while the payload is being spawned and
\* waited for, the running state with the new started_at is what is persisted.
C6_RunPersistsFinalState ==
    /\ ( pc \in {"run_spawn", "run_wait"} =>
            /\ cstate[cid] = lstate
            /\ cstate[cid].running
            /\ cstate[cid].started_at <= now
            /\ (IsSome(entry) => cstate[cid].started_at >= Unwrap(entry).started_at) )
    /\ ( pc = "idle" /\ op = "run" /\ result = "Ok" =>
            /\ IsSome(retcode)
            /\ ~cstate[cid].running
            /\ cstate[cid].exit_code = retcode
            /\ cstate[cid].pid = None
            /\ IsSome(cstate[cid].finished_at)
            /\ Unwrap(cstate[cid].finished_at) >= cstate[cid].started_at )

\* a run that began at time 1 returned 0 at time 2
C6_Witness ==
    /\ pc = "idle"
    /\ op = "run"
    /\ result = "Ok"
    /\ retcode = Some(0)
    /\ cstate[cid].started_at = 1
    /\ cstate[cid].finished_at = Some(2)

\* the sleep of the stop in flight
StopSleepEv == Ev("sleep", IF IsSome(arg_timeout) THEN Unwrap(arg_timeout) ELSE 10)

\* C7: stop on a container persisted as running with pid p sends SIGTERM to
\* p, then sleeps the timeout (10 seconds if none is given), then probes p
\* with signal 0 and sends SIGKILL if and only if the probe finds p alive;
\* stop then returns Ok with running = false, pid cleared, finished_at set.
C7_StopSequence ==
    /\ []( ( /\ op = "stop"
             /\ IsSome(entry)
             /\ Unwrap(entry).running
             /\ IsSome(Unwrap(entry).pid) )
           => LET p == Unwrap(Unwrap(entry).pid)
                  term == Ev("SIGTERM", p)
              IN /\ pc \in {"stop_begin", "stop_sleep", "stop_probe", "stop_save", "idle"}
                 /\ (pc = "stop_begin" => trace = << >>)
                 /\ (pc = "stop_sleep" => trace = <<term>>)
                 /\ (pc = "stop_probe" => trace = <<term, StopSleepEv>>)
                 /\ (pc \in {"stop_save", "idle"} =>
                        \/ trace = <<term, StopSleepEv, Ev("probe_alive", p), Ev("SIGKILL", p)>>
                        \/ trace = <<term, StopSleepEv, Ev("probe_dead", p)>>)
                 /\ (pc = "idle" =>
                        /\ result = "Ok"
                        /\ ~cstate[cid].running
                        /\ cstate[cid].pid = None
                        /\ IsSome(cstate[cid].finished_at)) )
    /\ [][ pc = "stop_probe" /\ pc' /= "stop_probe" =>
             LET p == Unwrap(lstate.pid)
             IN /\ (p \in alive) = (Ev("SIGKILL", p) = trace'[Len(trace')])
                /\ (p \in alive) = (Ev("probe_alive", p) \in {trace'[i] : i \in 1..Len(trace')})
                /\ p \notin alive' ]_vars

\* a payload that ignored SIGTERM through the default grace period was killed
C7_Witness ==
    /\ pc = "idle"
    /\ op = "stop"
    /\ result = "Ok"
    /\ arg_timeout = None
    /\ trace = <<Ev("SIGTERM", 1), Ev("sleep", 10), Ev("probe_alive", 1), Ev("SIGKILL", 1)>>
    /\ ~cstate[cid].running

\* C8: stop on a container persisted as not running returns Ok, sends no
\* signal and leaves the persisted state as it was.
C8_StopNotRunningIsNoOp ==
    /\ []( ( /\ op = "stop"
             /\ pc = "idle"
             /\ IsSome(entry)
             /\ ~Unwrap(entry).running )
           => /\ result = "Ok"
              /\ trace = << >>
              /\ Persisted(cid) = entry )
    /\ [][ pc = "stop_begin" /\ pc' /= "stop_begin" /\ ~load_state(cid).running =>
             /\ pc' = "idle"
             /\ UNCHANGED <<store_vars, alive, next_pid>> ]_vars

\* stop on a container that had exited
C8_Witness ==
    /\ op = "stop"
    /\ pc = "idle"
    /\ result = "Ok"
    /\ IsSome(entry)
    /\ ~Unwrap(entry).running
    /\ IsSome(Unwrap(entry).exit_code)
    /\ IsSome(Unwrap(entry).finished_at)
    /\ Unwrap(Unwrap(entry).finished_at) < now

\* C9: exec on a container persisted as not running fails with
\* ContainerNotRunning, spawns no process and leaves the persisted state and
\* the files of the container directory as they were; on a running container
\* it spawns a foreground process and never changes the persisted state.
C9_ExecLeavesStateAlone ==
    /\ []( op = "exec" /\ IsSome(entry) =>
              /\ Persisted(cid) = entry
              /\ (pc = "idle" /\ ~Unwrap(entry).running => result = "ContainerNotRunning")
              /\ (pc = "idle" /\ result = "Ok" => Unwrap(entry).running /\ IsSome(retcode))
              /\ (pc = "exec_wait" => Unwrap(entry).running /\ Unwrap(child) \in alive) )
    /\ [][ pc = "exec_begin" /\ pc' /= "exec_begin" /\ ~load_state(cid).running =>
             /\ pc' = "idle"
             /\ result' = "ContainerNotRunning"
             /\ UNCHANGED <<store_vars, alive, next_pid>> ]_vars

\* exec refused on a container that had exited
C9_Witness ==
    /\ op = "exec"
    /\ pc = "idle"
    /\ result = "ContainerNotRunning"
    /\ IsSome(entry)
    /\ IsSome(Unwrap(entry).exit_code)
    /\ cid \in DOMAIN pid_file

\* the step is a ContainerStore::create, directly or from the run verb
IsCreateStep ==
    /\ pc = "idle"
    /\ arg_name' /= NoName
    /\ \/ op' = "create" /\ pc' = "idle"
       \/ op' = "run_verb" /\ pc' = "idle"
       \/ op' \in StartOps /\ pc' \in {"run_begin", "start_spawn"}
    /\ <<store_vars, call_vars>>' /= <<store_vars, call_vars>>

\* C10: creating a container whose name is bound to another container in the
\* name index fails with ContainerExists and leaves that container's config,
\* state, directory and index entries as they were.
C10_NameCollisionRefused ==
    [][ ( /\ IsCreateStep
          /\ arg_name' \in DOMAIN names
          /\ (op' = "create" => names[arg_name'] /= cid') )
        => /\ result' = "ContainerExists"
           /\ UNCHANGED store_vars ]_vars


\* C11: when a verb that ran a container with auto_remove = true in the
\* foreground has ended, after the payload exited or after the launch failed,
\* the container is gone: its name finds nothing, neither index holds it and
\* its directory does not exist.
C11_AutoRemoveRemoves ==
    ( /\ op = "verb_exit"
      /\ ~verb.detach
      /\ verb.auto_remove
      /\ result \in {"Ok", "Spawn"} )
    => /\ find(verb.name) = None
       /\ verb.name \notin DOMAIN names
       /\ ShortId(cid) \notin DOMAIN short_ids
       /\ cid \notin dirs


\* C12: RootFs::setup(image, []) followed by RootFs::cleanup() on the same
\* container id leaves the directory containers/<id>/ absent.
C12_SetupCleanupLeavesNoDir ==
    [][ ( /\ op = "rootfs_setup"
          /\ result = "Ok"
          /\ op' = "rootfs_cleanup"
          /\ cid' = cid )
        => cid' \notin dirs' ]_vars


\* C17: full_name is a canonical form: for every text that parse accepts,
\* parsing the full_name of the parsed reference gives the same registry,
\* repository, tag and digest again.
C17_FullNameCanonical ==
    (IsSome(ref_parsed) /\ Unwrap(ref_parsed).ok)
    => /\ IsSome(ref_reparsed)
       /\ Unwrap(ref_reparsed).ok
       /\ Unwrap(ref_reparsed).registry = Unwrap(ref_parsed).registry
       /\ Unwrap(ref_reparsed).repository = Unwrap(ref_parsed).repository
       /\ Unwrap(ref_reparsed).tag = Unwrap(ref_parsed).tag
       /\ Unwrap(ref_reparsed).digest = Unwrap(ref_parsed).digest

\* the positions of character c in text w
Positions(w, c) == {i \in 1..Len(w) : w[i] = c}
Largest(S) == CHOOSE i \in S : \A j \in S : j <= i
Smallest(S) == CHOOSE i \in S : \A j \in S : i <= j
\* the tag is split off at the last ':' of w iff no '/' stands right of it
TagIsSplitOff(w) ==
    /\ Positions(w, ":") /= {}
    /\ \A j \in Positions(w, "/") : j < Largest(Positions(w, ":"))
ExpectedTag(w) ==
    IF TagIsSplitOff(w) THEN SubSeq(w, Largest(Positions(w, ":")) + 1, Len(w)) ELSE <<"latest">>
Remainder(w) ==
    IF TagIsSplitOff(w) THEN SubSeq(w, 1, Largest(Positions(w, ":")) - 1) ELSE w
FirstSegment(rest) == SubSeq(rest, 1, Smallest(Positions(rest, "/")) - 1)
NamesRegistry(rest) ==
    /\ Positions(rest, "/") /= {}
    /\ \/ \E k \in 1..Len(FirstSegment(rest)) : FirstSegment(rest)[k] \in {".", ":"}
       \/ FirstSegment(rest) = <<"localhost">>
ExpectedRegistry(rest) ==
    IF NamesRegistry(rest) THEN FirstSegment(rest) ELSE <<"docker", ".", "io">>
ExpectedRepository(rest) ==
    IF NamesRegistry(rest) THEN SubSeq(rest, Smallest(Positions(rest, "/")) + 1, Len(rest))
    ELSE IF Positions(rest, "/") /= {} THEN rest
    ELSE <<"library", "/">> \o rest
\* <<text, registry, repository, tag>> of the five documented references
ParseExamples ==
    { <<Alpine, <<"docker", ".", "io">>, <<"library", "/", "alpine">>, <<"latest">>>>,
      <<AlpineTagged, <<"docker", ".", "io">>, <<"library", "/", "alpine">>, <<"3", ".", "18">>>>,
      <<UserApp, <<"docker", ".", "io">>, <<"myuser", "/", "myapp">>, <<"v1", ".", "0">>>>,
      <<GhcrRepo, <<"ghcr", ".", "io">>, <<"owner", "/", "repo">>, <<"tag">>>>,
      <<LocalRegistry, <<"localhost", ":", "5000">>, <<"x">>, <<"latest">>>> }

\* C18: for a reference text without a digest, parse splits the tag off at
\* the last ':' only when no '/' follows it and defaults it to latest
\* otherwise; of a remainder with a '/', the first segment is the registry
\* iff it has a '.' or a ':' or is localhost, else the registry is docker.io
\* and the remainder is the repository; a remainder without '/' is
\* library/<name> at docker.io.  The five documented references parse to the
\* documented triples.
C18_ParseRule ==
    (IsSome(ref_parsed) /\ Unwrap(ref_parsed).ok /\ ~Contains(ref_text, "@"))
    => LET r == Unwrap(ref_parsed)
           w == trim(ref_text)
       IN /\ r.tag = ExpectedTag(w)
          /\ r.registry = ExpectedRegistry(Remainder(w))
          /\ r.repository = ExpectedRepository(Remainder(w))
          /\ \A ex \in ParseExamples :
                ref_text = ex[1] => <<r.registry, r.repository, r.tag>> = <<ex[2], ex[3], ex[4]>>

C18_Witness ==
    /\ ref_text = LocalRegistry
    /\ ref_parsed = Some([ok |-> TRUE, registry |-> <<"localhost", ":", "5000">>,
                          repository |-> <<"x">>, tag |-> <<"latest">>, digest |-> None])


\* the places of the list whose entry is for linux or darwin on the host's
\* architecture, and those whose entry is for the host's architecture
OsAndArchMatches ==
    {i \in 1..Len(index_manifests) :
        /\ index_manifests[i].platform /= None
        /\ index_manifests[i].platform[1].os \in {"linux", "darwin"}
        /\ index_manifests[i].platform[1].architecture = get_host_arch(host)}
ArchMatches ==
    {i \in 1..Len(index_manifests) :
        /\ index_manifests[i].platform /= None
        /\ index_manifests[i].platform[1].architecture = get_host_arch(host)}

RECURSIVE ExportWords(_)
ExportWords(env) ==
    IF env = << >> THEN << >>
    ELSE (IF \E i \in 1..Len(Head(env)) : Head(env)[i] = "="
          THEN <<Word(<<"export">>), Word(Head(env)), Syntax("&&")>>
          ELSE << >>) \o ExportWords(Tail(env))
\* the fields of the launch, one by one
FieldTexts(f) ==
    {f.work_dir, f.actual_cmd, f.log_path}
      \cup {f.args[i] : i \in 1..Len(f.args)}
      \cup {f.env[i] : i \in 1..Len(f.env)}

\* C20: the shell reads the sh -c text of a detached launch as cd <workdir>
\* && [export <key>=<value> &&]* <cmd> <args> >> <log> 2>&1 & echo $! with
\* every field as exactly one word of exactly the field's value, and it reads
\* shell_escape(s) of any string s as the one word s.
C20_FieldsAreSingleWords ==
    IsSome(sh_text)
    => /\ sh_words(Unwrap(sh_text)) =
             <<Word(<<"cd">>), Word(sh_fields.work_dir), Syntax("&&")>>
               \o ExportWords(sh_fields.env)
               \o <<Word(sh_fields.actual_cmd)>>
               \o [i \in 1..Len(sh_fields.args) |-> Word(sh_fields.args[i])]
               \o <<Syntax(">>"), Word(sh_fields.log_path), Syntax("2>&1"), Syntax("&"),
                    Word(<<"echo">>), Syntax("$!")>>
       /\ \A str \in FieldTexts(sh_fields) : sh_words(shell_escape(str)) = <<Word(str)>>

C20_Witness ==
    /\ IsSome(sh_text)
    /\ sh_fields.work_dir = <<"'", ";", "$">>
    /\ sh_fields.args = << <<"a", " ", "'", ";">>, <<"'", ";", "$">> >>
    /\ sh_fields.log_path = <<"a", " ", "'", ";">>


\* C13: an image stored under a reference is found by that reference, by its
\* "repo:tag" string, by its short id and by its full id, for as long as
\* that tag is not rebound to another image and the image is not removed.
C13_StoredImageStaysFound ==
    \A image_id \in DOMAIN stored :
        /\ find_image(stored[image_id]) = Some(image_id)
        /\ image_find(full_name(stored[image_id])) = Some(image_id)
        /\ image_find(ShortId(image_id)) = Some(image_id)
        /\ image_find(image_id) = Some(image_id)

\* a call of store, tag or pull that has just bound a reference to an image
BindsTag(call) ==
    /\ call.op \in {"store", "tag", "pull"}
    /\ call.result = "Ok"
    /\ IsSome(call.reference)

\* C14: every key of the tag index is bound to one image id; a store or a
\* tag of id2 under a reference that was bound to id1 makes find_image of
\* that reference return id2, and leaves the record of id1 as it was; no
\* other step binds a key to an id.
C14_RebindReplaces ==
    [][ /\ \A key \in DOMAIN image_index'.tags : image_index'.tags[key] \in ImageIds
        /\ \A key \in DOMAIN image_index'.tags :
              (key \notin DOMAIN image_index.tags
                  \/ image_index.tags[key] /= image_index'.tags[key])
              => /\ BindsTag(image_call')
                 /\ tag_key(Unwrap(image_call'.reference)) = key
                 /\ image_call'.id = image_index'.tags[key]
        /\ \A id1 \in ImageIds :
              LET call == image_call'
                  key == tag_key(Unwrap(call.reference))
              IN (/\ BindsTag(call)
                  /\ key \in DOMAIN image_index.tags
                  /\ image_index.tags[key] = id1
                  /\ call.id /= id1)
                 => /\ find_in(image_index', DOMAIN images', key) = Some(call.id)
                    /\ find_in(image_index', DOMAIN images', key) /= Some(id1)
                    /\ id1 \in DOMAIN images
                          => id1 \in DOMAIN images' /\ images'[id1] = images[id1]
      ]_vars
\* a tag of ImageId2 under the reference ImageId1 was stored with
C14_Witness ==
    /\ image_call.op = "tag"
    /\ image_call.result = "Ok"
    /\ image_call.id = ImageId2
    /\ find_image(Unwrap(image_call.reference)) = Some(ImageId2)
    /\ ImageId1 \in DOMAIN images
    /\ images[ImageId1].repository
            = Some(repository_with_registry(Unwrap(image_call.reference)))
    /\ images[ImageId1].tag = Some(Unwrap(image_call.reference).tag)

\* the layers of a metadata record
LayerSet(metadata) == {metadata.layers[i] : i \in 1..Len(metadata.layers)}

\* C15: a removal of an image, with or without prune_layers, leaves in
\* place every layer directory that an image remaining in the store
\* references.
C15_RemoveKeepsSharedLayers ==
    [][ (image_call'.op = "remove" /\ image_call'.result = "Ok" /\ images' /= images)
        => \A image_id \in DOMAIN images' :
             \A layer \in LayerSet(images'[image_id]) :
                layer \in DOMAIN layer_dirs
                    => layer \in DOMAIN layer_dirs' /\ layer_dirs'[layer] = layer_dirs[layer]
      ]_vars
\* ImageId1 removed with prune_layers while ImageId2, which shares LayerA
\* with it, remains
C15_Witness ==
    /\ image_call.op = "remove"
    /\ image_call.result = "Ok"
    /\ image_call.prune
    /\ image_call.id = ImageId1
    /\ ImageId2 \in DOMAIN images
    /\ LayerA \in LayerSet(images[ImageId2])
    /\ \E i \in 1..Len(LayersOf(ImageId1)) : LayersOf(ImageId1)[i] = LayerA
    /\ LayerA \in DOMAIN layer_dirs
    /\ LayerTar \in layer_dirs[LayerA]

\* C16: every layer directory holds its layer.tar, also after a fetch that
\* failed; and an image that a pull has recorded has a layer.tar for each
\* of its layers.
C16_LayerDirHasTar ==
    /\ \A digest \in DOMAIN layer_dirs : LayerTar \in layer_dirs[digest]
    /\ (image_call.op = "pull" /\ image_call.result = "Ok")
        => \A layer \in LayerSet(images[image_call.id]) :
              layer \in DOMAIN layer_dirs /\ LayerTar \in layer_dirs[layer]

\* C29: once Container::run has returned an error, the persisted state of
\* its container has running = false.
C29_FailedRunNotRunning ==
    (pc = "idle" /\ op = "run" /\ result \notin {"Ok", "pending"} /\ cid \in DOMAIN cstate)
        => ~cstate[cid].running

\* the payloads launched for a container that are alive: the foreground child
\* of the run in flight and the process of its container.pid
LivePayloads(id) ==
    {p \in alive : \/ pc = "run_wait" /\ cid = id /\ child = Some(p)
                   \/ id \in DOMAIN pid_file /\ pid_file[id] = p}

\* C27: once stop has returned Ok for a container whose persisted state was
\* running, and until the container is started again, none of the payloads
\* launched for it is alive.
C27_StopLeavesNoPayload ==
    /\ (pc = "idle" /\ op = "stop" /\ result = "Ok" /\ IsSome(entry) /\ Unwrap(entry).running)
            => LivePayloads(cid) = {}
    /\ (peer.op = "stop" /\ peer.result = "Ok" /\ peer.was_running
            /\ peer.id \in DOMAIN cstate /\ ~cstate[peer.id].running)
            => LivePayloads(peer.id) = {}

\* the names the image store can be asked for: the keys and the short ids of
\* an index, the full ids, and the ids as sha256: digests
ImageNames(index) ==
    DOMAIN index.tags \cup DOMAIN index.short_ids \cup ImageIds
        \cup {Sha256Prefix \o image_id : image_id \in ImageIds}

\* C30: find returns no image that is not in the store, whatever name it is
\* asked for; and the removal of an image leaves every tag and every short
\* id that is bound to another image as it was.
C30_NoDanglingNoStolen ==
    [][ /\ \A name \in ImageNames(image_index') :
              LET found == find_in(image_index', DOMAIN images', name)
              IN IsSome(found) => Unwrap(found) \in DOMAIN images'
        /\ (image_call'.op = "remove" /\ image_call'.result = "Ok" /\ images' /= images)
           => /\ \A key \in DOMAIN image_index.tags :
                    image_index.tags[key] /= image_call'.id
                    => /\ key \in DOMAIN image_index'.tags
                       /\ image_index'.tags[key] = image_index.tags[key]
              /\ \A short \in DOMAIN image_index.short_ids :
                    image_index.short_ids[short] /= image_call'.id
                    => /\ short \in DOMAIN image_index'.short_ids
                       /\ image_index'.short_ids[short] = image_index.short_ids[short]
      ]_vars

\* the outcomes of an item that names no object or that the verb refuses: an
\* error line and `continue`
Refused ==
    {"NoSuchContainer", "NoSuchImage", "Running", "NotRunning", "AlreadyRunning", "InUse"}

Writers(l) ==
    default_env(l.tool_env) \o env_pairs(l.config_env, 1, << >>) \o env_pairs(l.env, 1, << >>)
\* C22: on every launch path the payload's environment has exactly the keys
\* of the four defaults, of the container's env and of the invocation's env
\* (nothing of the tool's environment), each key with the value of its last
\* writer, and a launch with another tool environment that has the same TERM
\* gives the same environment
C22_SameEnvOnEveryPath ==
    launch.path /= "none" =>
        LET writers == Writers(launch)
        IN /\ DOMAIN launch.payload_env = {writers[i][1] : i \in 1..Len(writers)}
           /\ \A i \in 1..Len(writers) :
                (\A j \in (i + 1)..Len(writers) : writers[j][1] /= writers[i][1])
                    => launch.payload_env[writers[i][1]] = writers[i][2]
           /\ \A other \in ToolEnvs :
                env_var(other, EnvTerm) = env_var(launch.tool_env, EnvTerm)
                    => payload_env(launch.path, other, launch.config_env, launch.env)
                           = launch.payload_env


\* the lines of a stream, each with its newline, as the log file holds them
WithNewlines(lines) == [i \in 1..Len(lines) |-> lines[i] \o <<"\n">>]
\* C23: when the verb of a foreground launch with piped output has exited,
\* every line the payload wrote to stdout was printed to the tool's stdout
\* and every stderr line to its stderr, in the order written and with or
\* without a log path, and with a log path the log file holds every stdout
\* line with its newline
C23_NoLineLost ==
    tee.caller = "exited" =>
        /\ tee.printed.stdout = tee.written.stdout
        /\ tee.printed.stderr = tee.written.stderr
        /\ tee.log_given => tee.log_file = WithNewlines(tee.written.stdout)


\* the layers of the latest setup that supply path p as a regular file
FileLayers(p) ==
    {i \in 1..Len(setup.layers) :
        p \in DOMAIN setup.layers[i] /\ setup.layers[i][p].kind = "file"}
\* the paths the layers of the latest setup supply
LayerPaths == UNION {DOMAIN setup.layers[i] : i \in 1..Len(setup.layers)}
\* the root filesystem holds a symlink at path p or above it
AtOrBelowSymlink(p) ==
    \E k \in 1..Len(p) :
        /\ RootfsPath \o SubSeq(p, 1, k) \in DOMAIN disk.nodes
        /\ disk.nodes[RootfsPath \o SubSeq(p, 1, k)].kind = "symlink"
\* C24: after RootFs::setup, a path that several layers supply as a regular
\* file holds the content of the topmost of them, unless the root filesystem
\* has a symlink there; every host-bridge symlink is still that symlink; and
\* every directory of every layer is a directory of the root filesystem
C24_CopyMerge ==
    setup.result = "Ok" =>
        /\ \A p \in LayerPaths :
             Cardinality(FileLayers(p)) >= 2 /\ ~AtOrBelowSymlink(p)
                 => LET top == CHOOSE i \in FileLayers(p) : \A j \in FileLayers(p) : j <= i
                    IN lstat(disk, RootfsPath \o p) = Some(File(setup.layers[top][p].content))
        /\ \A i \in 1..Len(SystemSymlinks) :
             lstat(disk, RootfsPath \o SystemSymlinks[i]) = Some(Symlink(SystemSymlinks[i]))
        /\ \A i \in 1..Len(setup.layers) : \A p \in DOMAIN setup.layers[i] :
             setup.layers[i][p].kind = "dir" => is_dir(disk, RootfsPath \o p)

\* C25: after a RootFs::setup that succeeded, the container path of every
\* volume spec is a symlink to the host path of the spec; and a setup with
\* a spec of fewer than two parts fails with the invalid-input error
C25_VolumesAreSymlinks ==
    /\ setup.result = "Ok" =>
         \A i \in 1..Len(setup.volumes) :
            LET parts == split(setup.volumes[i], ":")
            IN lstat(disk, RootfsPath \o components(trim_start_matches(parts[2], "/")))
                   = Some(Symlink(components(parts[1])))
    /\ (\E i \in 1..Len(setup.volumes) : Len(split(setup.volumes[i], ":")) < 2)
           => setup.result = "InvalidInput"

\* the files outside the root filesystem
HostPart(fs) == [p \in {q \in DOMAIN fs.nodes : ~Within(RootfsPath, q)} |-> fs.nodes[p]]
\* C28: RootFs::setup leaves every file outside the root filesystem as it
\* was, and makes none
C28_NothingWrittenOutside ==
    setup.result /= "none" => HostPart(disk) = HostNodes


\* the instructions of the build that the specification has append a layer
LayerInstructions ==
    {i \in 1..Len(build.instructions) : build.instructions[i].kind \in {"COPY", "ADD"}}
\* C26: when a build has stored its image, the layer list is the layers
\* inherited from FROM followed by one new digest for each COPY and each ADD,
\* the new digests differ from one another and from the inherited ones, each
\* new layer is in the layer store, and the stored image has exactly this list
C26_OneLayerPerCopyOrAdd ==
    build.pc = "done" =>
        /\ Len(build.layers) = Len(build.base) + Cardinality(LayerInstructions)
        /\ SubSeq(build.layers, 1, Len(build.base)) = build.base
        /\ \A i, j \in 1..Len(build.layers) :
             i > Len(build.base) /\ i /= j => build.layers[i] /= build.layers[j]
        /\ \A i \in (Len(build.base) + 1)..Len(build.layers) : layer_exists(build.layers[i])
        /\ images[Unwrap(build.image_id)].layers = build.layers

=============================================================================
